---- MODULE Spec2Model ----
(***************************************************************************)
(* A model of the bezier-canvas spline editor: the history manager         *)
(* (HistoryManagerAbstract), the point model (Point, ConstructionPoint),   *)
(* the editor (BezierCanvas: pointer and keyboard handlers, import,        *)
(* export, reset) and the arc-length sampler (BezierUtils).                *)
(*                                                                         *)
(* Numbers.  A finite JavaScript number is kept as an integer count of     *)
(* tenths (the integer 3 is 30, -0.6 is -6); the three non-finite values   *)
(* are NaN, PInf and NInf.  Arithmetic is exact on the reals and a result  *)
(* that is stored unrounded is kept to the nearest tenth; the rounding     *)
(* error of IEEE doubles is not modelled.                                  *)
(*                                                                         *)
(* Identity.  Point.count gives every Point a fresh id.  The model keeps   *)
(* ids distinct among the points that can still be referenced (the points  *)
(* of the spline and currentMovingPoint): a new point takes the smallest   *)
(* id none of those uses.  Temporary points get no id.                     *)
(***************************************************************************)
EXTENDS Integers, Sequences, FiniteSets, TLC

\* The number of state-changing events of one run.
MaxEvents == 3
\* The number of knots an edit may bring the spline to.
MaxKnots == 3

----------------------------------------------------------------------------
(* Numbers *)

Scale == 2 * 5
NaN == 10 ^ 9
PInf == NaN + 1
NInf == NaN + 2
JsonNull == NaN + 3

\* Finite numbers stay far below the three non-finite values
IsFinite(v) == v < NaN
IsInf(v) == v \in {PInf, NInf}
Min(a, b) == IF a < b THEN a ELSE b
Max(a, b) == IF a > b THEN a ELSE b
Abs(a) == IF a < 0 THEN -a ELSE a
Sgn(a) == IF a < 0 THEN -1 ELSE IF a > 0 THEN 1 ELSE 0
InfOf(s) == IF s > 0 THEN PInf ELSE IF s < 0 THEN NInf ELSE NaN
SgnInf(v) == IF v = PInf THEN 1 ELSE -1

RECURSIVE SqrtIter(_, _)
SqrtIter(n, x) ==
    LET y == (x + n \div x) \div 2
    IN  IF y >= x THEN x ELSE SqrtIter(n, y)
\* A power of 2 above sqrt(n), from which Newton's iteration descends
SqrtStart(n) ==
    IF n < 2 ^ 16
    THEN IF n < 2 ^ 8 THEN (IF n < 2 ^ 4 THEN 2 ^ 2 ELSE 2 ^ 4)
         ELSE (IF n < 2 ^ 12 THEN 2 ^ 6 ELSE 2 ^ 8)
    ELSE IF n < 2 ^ 24 THEN (IF n < 2 ^ 20 THEN 2 ^ 10 ELSE 2 ^ 12)
         ELSE (IF n < 2 ^ 28 THEN 2 ^ 14 ELSE 2 ^ 16)
\* floor(sqrt(n)) of a natural number
ISqrt(n) == IF n = 0 THEN 0 ELSE SqrtIter(n, SqrtStart(n))
\* floor(sqrt(num / den)) and ceil(sqrt(num / den)), num >= 0, den > 0
FloorSqrt(num, den) == ISqrt(num \div den)
CeilSqrt(num, den) ==
    LET f == FloorSqrt(num, den)
    IN  IF f * f * den = num THEN f ELSE f + 1

\* Math.round of a number: the nearest integer, halves upwards
MathRound(v) == IF IsFinite(v) THEN ((v + Scale \div 2) \div Scale) * Scale ELSE v

\* The sum of ws[i] * xs[i], ws integers and xs numbers, as IEEE arithmetic
\* gives it: NaN from a NaN, from 0 * Infinity and from Infinity - Infinity.
\* The finite sum is returned as it is (in tenths times the weights' unit).
RECURSIVE SumProd(_, _, _)
SumProd(ws, xs, i) ==
    IF i > Len(ws) THEN 0 ELSE ws[i] * xs[i] + SumProd(ws, xs, i + 1)
Combine(ws, xs) ==
    LET I == 1..Len(ws)
        up == \E i \in I : IsInf(xs[i]) /\ SgnInf(xs[i]) * Sgn(ws[i]) > 0
        down == \E i \in I : IsInf(xs[i]) /\ SgnInf(xs[i]) * Sgn(ws[i]) < 0
    IN  IF \E i \in I : xs[i] = NaN \/ (IsInf(xs[i]) /\ ws[i] = 0) THEN NaN
        ELSE IF up /\ down THEN NaN
        ELSE IF up THEN PInf
        ELSE IF down THEN NInf
        ELSE SumProd(ws, xs, 1)
\* Math.round(Combine(ws, xs) / den), den > 0
RoundDiv(v, den) ==
    IF IsFinite(v) THEN ((v + (Scale \div 2) * den) \div (Scale * den)) * Scale ELSE v

----------------------------------------------------------------------------
(* Point and ConstructionPoint *)

null == [id |-> -1, x |-> 0, y |-> 0, active |-> FALSE]
nullId == -1

\* new Point(x, y): the setters round the coordinates
Point(id, x, y) == [id |-> id, x |-> MathRound(x), y |-> MathRound(y), active |-> FALSE]

\* new ConstructionPoint(x, y), without handlers yet
ConstructionPoint(id, x, y) ==
    [id |-> id, x |-> MathRound(x), y |-> MathRound(y), active |-> FALSE,
     handler1 |-> null, handler2 |-> null, fromCasteljau |-> FALSE]

\* The ids in use: the spline's points and the point currentMovingPoint holds
UsedIds(cps, moving) ==
    ({cps[i].id : i \in 1..Len(cps)}
        \cup {cps[i].handler1.id : i \in 1..Len(cps)}
        \cup {cps[i].handler2.id : i \in 1..Len(cps)}
        \cup {moving}) \ {nullId}
\* Point.count++, n times: n ids nobody holds
FreshIds(used, n) ==
    [k \in 1..n |->
        CHOOSE i \in 0..(Cardinality(used) + n) :
            i \notin used /\ Cardinality({j \in 0..i : j \notin used}) = k]

----------------------------------------------------------------------------
(* State *)

VARIABLES
    constructionPoints,     \* BezierCanvas.constructionPoints
    currentMovingPoint,     \* id of BezierCanvas.currentMovingPoint, or nullId
    isMouseDown,
    ctrlKeyIsDown,
    mouseReleaseAfterConstructionPointCreation,
    options,                \* naturalDrawMode, maxDistance, constraintTangents, historySize
    historySize,            \* HistoryManagerAbstract.historySize
    statesCursor,
    statesStack,
    lastHistoryStateHash,   \* <<>> for null, <<hash>> otherwise
    threw,                  \* the last handler ended by an uncaught TypeError
    returned,               \* what the last public query returned
    eventCount              \* events handled so far that changed the state

vars == <<constructionPoints, currentMovingPoint, isMouseDown, ctrlKeyIsDown,
          mouseReleaseAfterConstructionPointCreation, options, historySize,
          statesCursor, statesStack, lastHistoryStateHash, threw, returned,
          eventCount>>

\* The program's state as one record, which the handlers below transform
M == [constructionPoints |-> constructionPoints,
      currentMovingPoint |-> currentMovingPoint,
      isMouseDown |-> isMouseDown,
      ctrlKeyIsDown |-> ctrlKeyIsDown,
      mouseReleaseAfterConstructionPointCreation |->
          mouseReleaseAfterConstructionPointCreation,
      options |-> options,
      historySize |-> historySize,
      statesCursor |-> statesCursor,
      statesStack |-> statesStack,
      lastHistoryStateHash |-> lastHistoryStateHash,
      threw |-> threw]

----------------------------------------------------------------------------
(* Export and import *)

\* The point itself in place of a new object: a reference to the live Point
Referenced(p) == p
\* {x: p.x, y: p.y}: a new object holding the two numbers
XY(p) == [x |-> p.x, y |-> p.y]

\* getPoints writing hp2 for every knot, owned or not
getPointsAlwaysHp2(m) ==
    [i \in 1..Len(m.constructionPoints) |->
        LET point == m.constructionPoints[i]
        IN  [x |-> point.x, y |-> point.y, hp1 |-> XY(point.handler1),
             hp2 |-> XY(point.handler2)]]

\* BezierCanvas.getPoints
getPoints(m) ==
    [i \in 1..Len(m.constructionPoints) |->
        LET point == m.constructionPoints[i]
            set == [x |-> point.x, y |-> point.y, hp1 |-> XY(point.handler1)]
        IN  IF point.handler2 # null
            THEN [x |-> set.x, y |-> set.y, hp1 |-> set.hp1, hp2 |-> XY(point.handler2)]
            ELSE set]

\* historyReset leaving the last hash in place
historyResetKeepingHash(m) ==
    [m EXCEPT !.statesCursor = 0, !.statesStack = <<>>]

\* HistoryManagerAbstract.historyReset
historyReset(m) ==
    [m EXCEPT !.statesCursor = 0, !.statesStack = <<>>, !.lastHistoryStateHash = <<>>]

\* BezierCanvas.reset
reset(m) == [historyReset(m) EXCEPT !.constructionPoints = <<>>]

\* BezierCanvas.setPoints
setPoints(m, points) ==
    LET m1 == reset(m)
        ids == FreshIds(UsedIds(<<>>, m1.currentMovingPoint), 3 * Len(points))
        parsed(i) ==
            LET point == points[i]
                cp == ConstructionPoint(ids[3 * i - 2], point.x, point.y)
                h1 == Point(ids[3 * i - 1], point.hp1.x, point.hp1.y)
            IN  IF "hp2" \in DOMAIN point
                THEN [cp EXCEPT !.handler1 = h1,
                                !.handler2 = Point(ids[3 * i], point.hp2.x, point.hp2.y)]
                ELSE [cp EXCEPT !.handler1 = h1]
    IN  [m1 EXCEPT !.constructionPoints = [i \in 1..Len(points) |-> parsed(i)]]

----------------------------------------------------------------------------
(* History manager *)

\* BezierCanvas.getCurrentState
getCurrentState(m) == getPoints(m)

\* JSON.stringify of a number: a non-finite number is written null
JsonNumber(v) == IF IsFinite(v) THEN v ELSE JsonNull
JsonXY(p) == [x |-> JsonNumber(p.x), y |-> JsonNumber(p.y)]
\* JSON.stringify of an exported array
JsonStringify(points) ==
    [i \in 1..Len(points) |->
        LET point == points[i]
            set == [x |-> JsonNumber(point.x), y |-> JsonNumber(point.y),
                    hp1 |-> JsonXY(point.hp1)]
        IN  IF "hp2" \in DOMAIN point
            THEN [x |-> set.x, y |-> set.y, hp1 |-> set.hp1, hp2 |-> JsonXY(point.hp2)]
            ELSE set]

\* BezierCanvas.getCurrentStateHash
getCurrentStateHash(m) == JsonStringify(getCurrentState(m))

\* BezierCanvas.applyHistoryState
applyHistoryState(m, historyState) == setPoints(m, historyState)

\* HistoryManagerAbstract.safeStatesCursor
safeStatesCursor(m, cursor) ==
    [m EXCEPT !.statesCursor = Max(0, Min(Len(m.statesStack) - 1, cursor))]

\* removeFirstState removing the newest state (pop for shift)
removeLastState(stack) ==
    IF Len(stack) = 0 THEN stack ELSE SubSeq(stack, 1, Len(stack) - 1)

\* HistoryManagerAbstract.removeFirstState
removeFirstState(stack) == IF Len(stack) = 0 THEN stack ELSE Tail(stack)

\* HistoryManagerAbstract.statesBackward
statesBackward(m) ==
    IF Len(m.statesStack) > 0
    THEN LET m1 == safeStatesCursor(m, m.statesCursor - 1)
         IN  applyHistoryState(m1, m.statesStack[m1.statesCursor + 1])
    ELSE m

\* HistoryManagerAbstract.statesForward
statesForward(m) ==
    IF Len(m.statesStack) > 0
    THEN LET m1 == safeStatesCursor(m, m.statesCursor + 1)
         IN  applyHistoryState(m1, m.statesStack[m1.statesCursor + 1])
    ELSE m

\* HistoryManagerAbstract.historyManagerHandleKeyboardEvents
historyManagerHandleKeyboardEvents(m, code, ctrlKey) ==
    LET m1 == IF code = "Z" /\ ctrlKey THEN statesBackward(m) ELSE m
    IN  IF code = "Y" /\ ctrlKey THEN statesForward(m1) ELSE m1

\* pushHistoryState leaving the cursor one past the new last state
pushHistoryStateCursorPastEnd(m, state) ==
    LET sliced == SubSeq(m.statesStack, 1, Min(Len(m.statesStack), m.statesCursor + 1))
        kept == IF Len(sliced) = m.historySize THEN removeFirstState(sliced) ELSE sliced
        pushed == Append(kept, state)
    IN  [m EXCEPT !.statesStack = pushed, !.statesCursor = Len(pushed)]

\* pushHistoryState without the slice that drops the states after the cursor
pushHistoryStateWithoutSlice(m, state) ==
    LET kept == IF Len(m.statesStack) = m.historySize
                THEN removeFirstState(m.statesStack) ELSE m.statesStack
        pushed == Append(kept, state)
    IN  [m EXCEPT !.statesStack = pushed, !.statesCursor = Len(pushed) - 1]

\* HistoryManagerAbstract.pushHistoryState
pushHistoryState(m, state) ==
    LET sliced == SubSeq(m.statesStack, 1, Min(Len(m.statesStack), m.statesCursor + 1))
        kept == IF Len(sliced) = m.historySize THEN removeFirstState(sliced) ELSE sliced
        pushed == Append(kept, state)
    IN  [m EXCEPT !.statesStack = pushed, !.statesCursor = Len(pushed) - 1]

\* pushHistoryStateIfChanged that does not record the hash of what it pushes
pushHistoryStateIfChangedWithoutHash(m) ==
    IF <<getCurrentStateHash(m)>> # m.lastHistoryStateHash
    THEN pushHistoryState(m, getCurrentState(m))
    ELSE m

\* HistoryManagerAbstract.pushHistoryStateIfChanged
pushHistoryStateIfChanged(m) ==
    IF <<getCurrentStateHash(m)>> # m.lastHistoryStateHash
    THEN pushHistoryState([m EXCEPT !.lastHistoryStateHash = <<getCurrentStateHash(m)>>],
                          getCurrentState(m))
    ELSE m

----------------------------------------------------------------------------
(* Geometry *)

\* const steps = 100 (findPointOnSpline); knotInsertion receives t = i / steps
steps == 100

\* a.x - b.x
Sub(a, b) == Combine(<<1, -1>>, <<a, b>>)

\* BezierCanvas.getDistance, squared (in hundredths): NaN, PInf or a natural
getDistance2(a, b) ==
    IF a.x < NaN /\ a.y < NaN /\ b.x < NaN /\ b.y < NaN
    THEN (a.x - b.x) * (a.x - b.x) + (a.y - b.y) * (a.y - b.y)
    ELSE LET dx == Sub(a.x, b.x)
             dy == Sub(a.y, b.y)
         IN  IF dx = NaN \/ dy = NaN THEN NaN
             ELSE IF IsInf(dx) \/ IsInf(dy) THEN PInf
             ELSE dx * dx + dy * dy

\* distance < maxDistance and distance <= maxDistance, on squared distances
\* (false of NaN and of Infinity, which are above every finite bound)
Below(d2, maxDistance) == d2 < (maxDistance * Scale) * (maxDistance * Scale)
Within(d2, maxDistance) == d2 <= (maxDistance * Scale) * (maxDistance * Scale)

\* BezierCanvas.weighted at t = i / steps: a new Point, so rounded
weighted(P0, P1, i) ==
    [x |-> RoundDiv(Combine(<<steps - i, i>>, <<P0.x, P1.x>>), steps),
     y |-> RoundDiv(Combine(<<steps - i, i>>, <<P0.y, P1.y>>), steps)]

\* The weights of P0..P3 at t = i / steps, over steps^3
Bernstein ==
    [i \in 0..steps |->
        <<(steps - i) * (steps - i) * (steps - i),
          3 * i * (steps - i) * (steps - i),
          3 * i * i * (steps - i),
          i * i * i>>]

\* Math.round((w[1] * a + w[2] * b + w[3] * c + w[4] * d) / den)
RoundSum4(w, a, b, c, d, den) ==
    IF a < NaN /\ b < NaN /\ c < NaN /\ d < NaN
    THEN ((w[1] * a + w[2] * b + w[3] * c + w[4] * d + (Scale \div 2) * den)
            \div (Scale * den)) * Scale
    ELSE RoundDiv(Combine(w, <<a, b, c, d>>), den)

\* BezierUtils.cubicBezierInterpolate at t = i / steps: a new Point, so rounded
cubicBezierInterpolate(i, P0, P1, P2, P3) ==
    [x |-> RoundSum4(Bernstein[i], P0.x, P1.x, P2.x, P3.x, steps * steps * steps),
     y |-> RoundSum4(Bernstein[i], P0.y, P1.y, P2.y, P3.y, steps * steps * steps)]

\* currentPoint.handler2 || currentPoint.handler1
Outgoing(cp) == IF cp.handler2 # null THEN cp.handler2 ELSE cp.handler1

\* BezierCanvas.findClosestConstructionPoint: the index of the knot found, 0 for
\* null.  The forEach callback's return does not stop the loop: the last knot
\* below maxDistance is the one kept.
findClosestConstructionPoint(m, x, y) ==
    LET position == [x |-> MathRound(x), y |-> MathRound(y)]
        hits == {i \in 1..Len(m.constructionPoints) :
                    Below(getDistance2(position, m.constructionPoints[i]),
                          m.options.maxDistance)}
    IN  IF hits = {} THEN 0 ELSE CHOOSE i \in hits : \A j \in hits : j <= i

\* The pass with distance >= curDistance: on ties the later sample is kept
ProjectionStepKeepingLater(cps, clickPosition, maxDistance, k, kept) ==
    LET index == k \div (steps + 1) + 1
        i == k % (steps + 1)
        curDistance ==
            getDistance2(
                cubicBezierInterpolate(i, cps[index], Outgoing(cps[index]),
                                       cps[index + 1].handler1, cps[index + 1]),
                clickPosition)
    IN  IF Within(curDistance, maxDistance) /\ (kept = <<>> \/ kept[3] >= curDistance)
        THEN <<index, i, curDistance>>
        ELSE kept

\* One pass of the body of findPointOnSpline's for loop, for the k-th sample
\* (segment by segment, i = 0..steps in each); kept is <<>> while foundPoint
\* is null, then <<index, i, distance>> of the sample kept
ProjectionStep(cps, clickPosition, maxDistance, k, kept) ==
    LET index == k \div (steps + 1) + 1
        i == k % (steps + 1)
        curDistance ==
            getDistance2(
                cubicBezierInterpolate(i, cps[index], Outgoing(cps[index]),
                                       cps[index + 1].handler1, cps[index + 1]),
                clickPosition)
    IN  IF Within(curDistance, maxDistance) /\ (kept = <<>> \/ kept[3] > curDistance)
        THEN <<index, i, curDistance>>
        ELSE kept

RECURSIVE ProjectionScan(_, _, _, _, _, _)
\* The passes for the samples low..high in order, starting from kept
ProjectionScan(cps, clickPosition, maxDistance, low, high, kept) ==
    IF low > high THEN kept
    ELSE IF low = high THEN ProjectionStep(cps, clickPosition, maxDistance, low, kept)
    ELSE LET middle == (low + high) \div 2
             first == ProjectionScan(cps, clickPosition, maxDistance, low, middle, kept)
         IN  IF first = <<>>
             THEN ProjectionScan(cps, clickPosition, maxDistance, middle + 1, high, <<>>)
             ELSE ProjectionScan(cps, clickPosition, maxDistance, middle + 1, high, first)

\* BezierCanvas.findPointOnSpline: found = FALSE for null, otherwise the sample
\* kept (position: the slot after the segment's start knot, t = i / steps)
findPointOnSpline(m, x, y) ==
    LET cps == m.constructionPoints
        clickPosition == [x |-> MathRound(x), y |-> MathRound(y)]
        best == ProjectionScan(cps, clickPosition, m.options.maxDistance, 0,
                              (Len(cps) - 1) * (steps + 1) - 1, <<>>)
    IN  IF best = <<>>
        THEN [found |-> FALSE]
        ELSE [found |-> TRUE,
              point |-> cubicBezierInterpolate(best[2], cps[best[1]], Outgoing(cps[best[1]]),
                                               cps[best[1] + 1].handler1, cps[best[1] + 1]),
              distance |-> best[3],
              position |-> best[1] + 1,
              t |-> best[2],
              P0 |-> cps[best[1]],
              P1 |-> Outgoing(cps[best[1]]),
              P2 |-> cps[best[1] + 1].handler1,
              P3 |-> cps[best[1] + 1]]

\* the assignments left out: the point stays where it was
Unmoved(p, x, y) == p
\* a handler with its coordinates assigned (p.x = x; p.y = y: no rounding)
Moved(p, x, y) == [p EXCEPT !.x = x, !.y = y]
\* the handler `id` replaced by a new point at the coordinates
WithNewHandlerAt(cps, id, x, y) ==
    [i \in 1..Len(cps) |->
        [cps[i] EXCEPT
            !.handler1 = IF @.id = id /\ id # nullId THEN Point(1000 + id, x, y) ELSE @,
            !.handler2 = IF @.id = id /\ id # nullId THEN Point(1000 + id, x, y) ELSE @]]

\* the spline with the coordinates of the handler `id` assigned
WithHandlerAt(cps, id, x, y) ==
    [i \in 1..Len(cps) |->
        [cps[i] EXCEPT
            !.handler1 = IF @.id = id /\ id # nullId THEN Moved(@, x, y) ELSE @,
            !.handler2 = IF @.id = id /\ id # nullId THEN Moved(@, x, y) ELSE @]]

\* BezierCanvas.resetActivePoint
resetActivePoint(cps) ==
    [i \in 1..Len(cps) |->
        [cps[i] EXCEPT !.active = FALSE,
                       !.handler1 = [@ EXCEPT !.active = FALSE],
                       !.handler2 = [@ EXCEPT !.active = FALSE]]]

\* point.active = true, for the point `id` of the spline
Activated(cps, id) ==
    [i \in 1..Len(cps) |->
        [cps[i] EXCEPT
            !.active = (@ \/ cps[i].id = id),
            !.handler1 = [@ EXCEPT !.active = (@ \/ cps[i].handler1.id = id)],
            !.handler2 = [@ EXCEPT !.active = (@ \/ (id # nullId /\ cps[i].handler2.id = id))]]]

\* BezierCanvas.setActivePoint, for a point of the spline
setActivePoint(m, id) ==
    [m EXCEPT !.constructionPoints = Activated(resetActivePoint(@), id),
              !.currentMovingPoint = id]

\* splice replaced by push: the element goes last
PushedLast(s, i, e) == Append(s, e)
InsertAt(s, i, e) == SubSeq(s, 1, i - 1) \o <<e>> \o SubSeq(s, i, Len(s))
\* splice at the wrong index: the first element goes
RemoveFirst(s, i) == SubSeq(s, 2, Len(s))
RemoveAt(s, i) == SubSeq(s, 1, i - 1) \o SubSeq(s, i + 1, Len(s))

\* knotInsertion giving the new knot its handler1 only
knotInsertionWithoutHandler2(m, t, P0, P1, P2, P3) ==
    LET P4 == weighted(P0, P1, t)
        P5 == weighted(P1, P2, t)
        P6 == weighted(P2, P3, t)
        P7 == weighted(P4, P5, t)
        P8 == weighted(P5, P6, t)
        P9 == weighted(P7, P8, t)
        ids == FreshIds(UsedIds(m.constructionPoints, m.currentMovingPoint), 3)
        newPoint == [ConstructionPoint(ids[1], P9.x, P9.y) EXCEPT
                        !.fromCasteljau = TRUE,
                        !.active = TRUE,
                        !.handler1 = Point(ids[2], P7.x, P7.y)]
        cleared == resetActivePoint(m.constructionPoints)
        moved == WithHandlerAt(WithHandlerAt(cleared, P1.id, P4.x, P4.y), P2.id, P6.x, P6.y)
        index == CHOOSE i \in 1..Len(moved) : moved[i].id = P0.id
    IN  [m EXCEPT !.constructionPoints = InsertAt(moved, index + 1, newPoint),
                  !.currentMovingPoint = newPoint.id]

\* BezierCanvas.knotInsertion at t = i / steps
knotInsertion(m, t, P0, P1, P2, P3) ==
    LET P4 == weighted(P0, P1, t)
        P5 == weighted(P1, P2, t)
        P6 == weighted(P2, P3, t)
        P7 == weighted(P4, P5, t)
        P8 == weighted(P5, P6, t)
        P9 == weighted(P7, P8, t)
        ids == FreshIds(UsedIds(m.constructionPoints, m.currentMovingPoint), 3)
        newPoint == [ConstructionPoint(ids[1], P9.x, P9.y) EXCEPT
                        !.fromCasteljau = TRUE,
                        !.active = TRUE,
                        !.handler1 = Point(ids[2], P7.x, P7.y),
                        !.handler2 = Point(ids[3], P8.x, P8.y)]
        cleared == resetActivePoint(m.constructionPoints)
        moved == WithHandlerAt(WithHandlerAt(cleared, P1.id, P4.x, P4.y), P2.id, P6.x, P6.y)
        index == CHOOSE i \in 1..Len(moved) : moved[i].id = P0.id
    IN  [m EXCEPT !.constructionPoints = InsertAt(moved, index + 1, newPoint),
                  !.currentMovingPoint = newPoint.id]

----------------------------------------------------------------------------
(* Removal *)

\* The quotient sqrt(dA) / sqrt(dB) of two distances (given squared), by kind
QuotientKind(dA, dB) ==
    IF dA = NaN \/ dB = NaN THEN "NaN"
    ELSE IF dA = PInf /\ dB = PInf THEN "NaN"
    ELSE IF dA = PInf THEN "Infinity"
    ELSE IF dB = PInf THEN "zero"
    ELSE IF dA = 0 /\ dB = 0 THEN "NaN"
    ELSE IF dB = 0 THEN "Infinity"
    ELSE IF dA = 0 THEN "zero"
    ELSE "finite"

\* Math.round(a + b * sqrt(num / den)) for finite a, b
RoundLin(a, b, num, den) ==
    IF b >= 0
    THEN ((a + Scale \div 2 + FloorSqrt(b * b * num, den)) \div Scale) * Scale
    ELSE ((a + Scale \div 2 - CeilSqrt(b * b * num, den)) \div Scale) * Scale

\* a + b * sqrt(num / den) for finite a, b, to the nearest tenth
NearLin(a, b, num, den) ==
    a + Sgn(b) * ((ISqrt((4 * b * b * num) \div den) + 1) \div 2)

\* Infinity * v
TimesInf(v) ==
    IF v = NaN THEN NaN
    ELSE IF v = PInf THEN PInf
    ELSE IF v = NInf THEN NInf
    ELSE InfOf(Sgn(v))

\* Math.round((1 + k) * p1 - k * p0), k = sqrt(dA) / sqrt(dB) of kind `kind`
FusedP(p1, p0, kind, dA, dB) ==
    CASE kind = "finite" ->
            IF IsFinite(p1) /\ IsFinite(p0) THEN RoundLin(p1, p1 - p0, dA, dB)
            ELSE Combine(<<1, -1>>, <<p1, p0>>)
      [] kind = "zero" ->
            IF IsFinite(p0) THEN MathRound(p1) ELSE NaN
      [] OTHER ->
            LET t1 == TimesInf(p1)
                t2 == TimesInf(p0)
            IN  IF t1 = NaN \/ t2 = NaN \/ t1 = t2 THEN NaN ELSE t1

\* Math.round(((1 + k) * p2 - p3) / k), k = sqrt(dA) / sqrt(dB) of kind `kind`
FusedQ(p2, p3, kind, dA, dB) ==
    CASE kind = "finite" ->
            IF IsFinite(p2) /\ IsFinite(p3) THEN RoundLin(p2, p2 - p3, dB, dA)
            ELSE Combine(<<1, -1>>, <<p2, p3>>)
      [] kind = "zero" ->
            LET d == Sub(p2, p3)
            IN  IF IsFinite(d) THEN InfOf(Sgn(d)) ELSE d
      [] OTHER -> NaN

\* The re-enforcement left out: the spline as the splice leaves it
OneHandlerLeftOut(cps, freshId) == cps

\* First and last points only have one handler (in normal mode)
OneHandler(cps, freshId) ==
    LET first == IF cps[1].handler2 # null
                 THEN [cps EXCEPT ![1].handler1 =
                                      Point(freshId, cps[1].handler2.x, cps[1].handler2.y),
                                  ![1].handler2 = null]
                 ELSE cps
    IN  [first EXCEPT ![Len(first)].handler2 = null]

\* removeConstructionPoint leaving currentMovingPoint as it is
removeConstructionPointKeepingActive(m, point) ==
    LET cps == m.constructionPoints
        moving == m.currentMovingPoint
        foundIndex == CHOOSE i \in 1..Len(cps) : cps[i].id = point.id
        foundPoint == cps[foundIndex]
        fuse == point.fromCasteljau /\ foundIndex > 1 /\ foundIndex < Len(cps)
        P0 == cps[foundIndex - 1]
        P1 == Outgoing(P0)
        P3 == cps[foundIndex + 1]
        P2 == P3.handler1
        dA == getDistance2(foundPoint.handler2, foundPoint)
        dB == getDistance2(foundPoint.handler1, foundPoint)
        k == QuotientKind(dA, dB)
        fused ==
            IF fuse /\ k # "NaN"
            THEN WithHandlerAt(
                    WithHandlerAt(cps, P1.id, FusedP(P1.x, P0.x, k, dA, dB),
                                  FusedP(P1.y, P0.y, k, dA, dB)),
                    P2.id, FusedQ(P2.x, P3.x, k, dA, dB), FusedQ(P2.y, P3.y, k, dA, dB))
            ELSE cps
        spliced == RemoveAt(fused, foundIndex)
        freshId == FreshIds(UsedIds(spliced, moving), 1)[1]
    IN  IF fuse /\ foundPoint.handler2 = null
        THEN [m EXCEPT !.currentMovingPoint = moving, !.threw = TRUE]
        ELSE [m EXCEPT !.currentMovingPoint = moving,
                       !.constructionPoints =
                            IF Len(spliced) > 0 /\ ~m.options.naturalDrawMode
                            THEN OneHandler(spliced, freshId)
                            ELSE spliced]

\* BezierCanvas.removeConstructionPoint, for the knot `point` of the spline
removeConstructionPoint(m, point) ==
    LET cps == m.constructionPoints
        moving == IF m.currentMovingPoint = point.id THEN nullId ELSE m.currentMovingPoint
        foundIndex == CHOOSE i \in 1..Len(cps) : cps[i].id = point.id
        foundPoint == cps[foundIndex]
        fuse == point.fromCasteljau /\ foundIndex > 1 /\ foundIndex < Len(cps)
        P0 == cps[foundIndex - 1]
        P1 == Outgoing(P0)
        P3 == cps[foundIndex + 1]
        P2 == P3.handler1
        dA == getDistance2(foundPoint.handler2, foundPoint)
        dB == getDistance2(foundPoint.handler1, foundPoint)
        k == QuotientKind(dA, dB)
        fused ==
            IF fuse /\ k # "NaN"
            THEN WithHandlerAt(
                    WithHandlerAt(cps, P1.id, FusedP(P1.x, P0.x, k, dA, dB),
                                  FusedP(P1.y, P0.y, k, dA, dB)),
                    P2.id, FusedQ(P2.x, P3.x, k, dA, dB), FusedQ(P2.y, P3.y, k, dA, dB))
            ELSE cps
        spliced == RemoveAt(fused, foundIndex)
        freshId == FreshIds(UsedIds(spliced, moving), 1)[1]
    IN  IF fuse /\ foundPoint.handler2 = null
        THEN [m EXCEPT !.currentMovingPoint = moving, !.threw = TRUE]
        ELSE [m EXCEPT !.currentMovingPoint = moving,
                       !.constructionPoints =
                            IF Len(spliced) > 0 /\ ~m.options.naturalDrawMode
                            THEN OneHandler(spliced, freshId)
                            ELSE spliced]

----------------------------------------------------------------------------
(* Pointer and keyboard handlers.  A position is what getPosition returns:  *)
(* a Point, so integer coordinates.                                         *)

\* options.smoothFactor = 0.5, as smoothFactorNum / smoothFactorDen
smoothFactorNum == 1
smoothFactorDen == 2

\* The other handler itself assigned in place of a new Point
NotCloned(id, D, h) == h
\* new Point(D.x - smoothFactor * (h.x - D.x), D.y - smoothFactor * (h.y - D.y))
Smoothed(id, D, h) ==
    Point(id,
          RoundDiv(Combine(<<smoothFactorDen + smoothFactorNum, -smoothFactorNum>>,
                           <<D.x, h.x>>), smoothFactorDen),
          RoundDiv(Combine(<<smoothFactorDen + smoothFactorNum, -smoothFactorNum>>,
                           <<D.y, h.y>>), smoothFactorDen))

\* The append making handler1 the active point in natural mode too
appendConstructionPointActivatingHandler1(m, position) ==
    LET natural == m.options.naturalDrawMode
        ids == FreshIds(UsedIds(m.constructionPoints, m.currentMovingPoint), 4)
        point == [ConstructionPoint(ids[1], position.x, position.y) EXCEPT
                     !.handler1 = Point(ids[2], position.x, position.y),
                     !.handler2 = IF natural THEN Point(ids[3], position.x, position.y)
                                  ELSE null]
        pushed == Append(m.constructionPoints, point)
        m1 == setActivePoint(
                  [m EXCEPT !.mouseReleaseAfterConstructionPointCreation = FALSE,
                            !.constructionPoints = pushed],
                  ids[2])
        n == Len(pushed)
        D == m1.constructionPoints[n - 1]
    IN  IF n > 2
        THEN IF natural
             THEN IF D.handler2 = null
                  THEN [m1 EXCEPT !.threw = TRUE]
                  ELSE [m1 EXCEPT !.constructionPoints[n - 1].handler1 =
                                      Smoothed(ids[4], D, D.handler2)]
             ELSE [m1 EXCEPT !.constructionPoints[n - 1].handler2 =
                                 Smoothed(ids[4], D, D.handler1)]
        ELSE m1

\* mousedown without Ctrl and off the curve: create a new construction point
appendConstructionPoint(m, position) ==
    LET natural == m.options.naturalDrawMode
        ids == FreshIds(UsedIds(m.constructionPoints, m.currentMovingPoint), 4)
        point == [ConstructionPoint(ids[1], position.x, position.y) EXCEPT
                     !.handler1 = Point(ids[2], position.x, position.y),
                     !.handler2 = IF natural THEN Point(ids[3], position.x, position.y)
                                  ELSE null]
        pushed == Append(m.constructionPoints, point)
        m1 == setActivePoint(
                  [m EXCEPT !.mouseReleaseAfterConstructionPointCreation = FALSE,
                            !.constructionPoints = pushed],
                  IF natural THEN ids[3] ELSE ids[2])
        n == Len(pushed)
        D == m1.constructionPoints[n - 1]
    IN  IF n > 2
        THEN IF natural
             THEN IF D.handler2 = null
                  THEN [m1 EXCEPT !.threw = TRUE]
                  ELSE [m1 EXCEPT !.constructionPoints[n - 1].handler1 =
                                      Smoothed(ids[4], D, D.handler2)]
             ELSE [m1 EXCEPT !.constructionPoints[n - 1].handler2 =
                                 Smoothed(ids[4], D, D.handler1)]
        ELSE m1

\* The point a mousedown with Ctrl selects: every knot, then its handler1, then
\* its handler2, the last of the closest within maxDistance; nullId for none
SelectedPoint(m, position) ==
    LET cps == m.constructionPoints
        checked(c) == IF c[2] = 0 THEN cps[c[1]]
                      ELSE IF c[2] = 1 THEN cps[c[1]].handler1
                      ELSE cps[c[1]].handler2
        pointsToCheck == {c \in (1..Len(cps)) \X (0..2) : checked(c) # null}
        near == {c \in pointsToCheck :
                    Within(getDistance2(checked(c), position), m.options.maxDistance)}
        later(c, d) == c[1] > d[1] \/ (c[1] = d[1] /\ c[2] >= d[2])
        sel == CHOOSE c \in near :
                  \A d \in near :
                      \/ getDistance2(checked(c), position) < getDistance2(checked(d), position)
                      \/ /\ getDistance2(checked(c), position) = getDistance2(checked(d), position)
                         /\ later(c, d)
    IN  IF near = {} THEN nullId ELSE checked(sel).id

\* mousedown with Ctrl: select the point to move
selectPointToMove(m, position) ==
    LET selectedPoint == SelectedPoint(m, position)
    IN  IF selectedPoint = nullId
        THEN [m EXCEPT !.currentMovingPoint = nullId]
        ELSE setActivePoint(m, selectedPoint)

\* The mousedown listener, left button
mousedown(m, position) ==
    LET m1 == [m EXCEPT !.isMouseDown = TRUE]
    IN  IF m1.ctrlKeyIsDown
        THEN selectPointToMove(m1, position)
        ELSE LET pointOnSpline == findPointOnSpline(m1, position.x, position.y)
             IN  IF pointOnSpline.found
                 THEN knotInsertion(m1, pointOnSpline.t, pointOnSpline.P0, pointOnSpline.P1,
                                    pointOnSpline.P2, pointOnSpline.P3)
                 ELSE appendConstructionPoint(m1, position)

\* The mouseup listener leaving isMouseDown as it is
mouseupStillDown(m) ==
    pushHistoryStateIfChanged(
        [m EXCEPT !.mouseReleaseAfterConstructionPointCreation = TRUE])

\* The mouseup listener
mouseup(m) ==
    pushHistoryStateIfChanged(
        [m EXCEPT !.isMouseDown = FALSE,
                  !.mouseReleaseAfterConstructionPointCreation = TRUE])

\* The mouseleave listener
mouseleave(m) ==
    pushHistoryStateIfChanged(
        [m EXCEPT !.isMouseDown = FALSE,
                  !.mouseReleaseAfterConstructionPointCreation = TRUE])

\* The contextmenu listener
contextmenu(m, position) ==
    LET point == findClosestConstructionPoint(m, position.x, position.y)
    IN  IF point # 0 THEN removeConstructionPoint(m, m.constructionPoints[point]) ELSE m

\* The keydown listener; code is "Z", "Y" or another key
keydown(m, code, ctrlKey) ==
    historyManagerHandleKeyboardEvents(
        IF ctrlKey THEN [m EXCEPT !.ctrlKeyIsDown = TRUE] ELSE m, code, ctrlKey)

\* The keyup listener
keyup(m) == [m EXCEPT !.ctrlKeyIsDown = FALSE]

\* The opposite handler's new coordinate while a handler of a released knot is
\* dragged with constraintTangents: parent + (1 / ratio) * (parent - position),
\* ratio = distance1 / distance2 of kind `kind` (not zero)
Mirrored(parent, position, kind, d1, d2) ==
    CASE kind = "finite" -> NearLin(parent, parent - position, d2, d1)
      [] kind = "Infinity" -> parent
      [] OTHER -> NaN

\* The mousemove listener, past the throttle
mousemove(m, position) ==
    LET cps == m.constructionPoints
        id == m.currentMovingPoint
        knots == {i \in 1..Len(cps) : cps[i].id = id}
        firsts == {i \in 1..Len(cps) : cps[i].handler1.id = id}
        seconds == {i \in 1..Len(cps) : cps[i].handler2.id = id}
        i == CHOOSE j \in knots \cup firsts \cup seconds : TRUE
        parent == cps[i]
        opposite == IF i \in firsts THEN parent.handler2 ELSE parent.handler1
        distance1 == getDistance2(position, parent)
        distance2 == getDistance2(opposite, parent)
        ratio == QuotientKind(distance1, distance2)
        pencil == m.options.naturalDrawMode /\ ~m.mouseReleaseAfterConstructionPointCreation
        constrained == m.options.constraintTangents /\ opposite # null
        mirror ==
            IF pencil
            THEN Moved(opposite, parent.x - (position.x - parent.x),
                       parent.y - (position.y - parent.y))
            ELSE Moved(opposite, Mirrored(parent.x, position.x, ratio, distance1, distance2),
                       Mirrored(parent.y, position.y, ratio, distance1, distance2))
        dragged == Moved(IF i \in firsts THEN parent.handler1 ELSE parent.handler2,
                         position.x, position.y)
        translated(h) ==
            IF h = null THEN null
            ELSE Moved(h, Combine(<<1, -1, 1>>, <<position.x, parent.x, h.x>>),
                       Combine(<<1, -1, 1>>, <<position.y, parent.y, h.y>>))
    IN  IF ~m.isMouseDown \/ id = nullId \/ knots \cup firsts \cup seconds = {}
        THEN m
        ELSE IF i \in knots
        THEN [m EXCEPT !.constructionPoints[i] =
                  [parent EXCEPT !.x = position.x, !.y = position.y,
                                 !.handler1 = translated(@),
                                 !.handler2 = translated(@)]]
        ELSE IF constrained /\ ~pencil /\ ratio = "zero"
        THEN m
        ELSE [m EXCEPT !.constructionPoints[i] =
                  IF i \in firsts
                  THEN [parent EXCEPT !.handler1 = dragged,
                                      !.handler2 = IF constrained THEN mirror ELSE @]
                  ELSE [parent EXCEPT !.handler2 = dragged,
                                      !.handler1 = IF constrained THEN mirror ELSE @]]

----------------------------------------------------------------------------
(* Sampling at regular distances: BezierUtils and getRegularlyPlacedPoints.  *)
(* Curve parameters are kept in thousandths, the arc-length table in         *)
(* thousandths of a unit and getLength in ten-thousandths, square roots      *)
(* rounded down.                                                             *)

\* BezierUtils.len, precision steps (constructor's default)
len == 200
\* getLength: const inc = 100 (its steps is 100 too)
inc == 100
Milli == 10 ^ 3

\* The weights of P0..P3 at t thousandths, over Milli^3
BernsteinAt(t) ==
    <<(Milli - t) * (Milli - t) * (Milli - t),
      3 * t * (Milli - t) * (Milli - t),
      3 * t * t * (Milli - t),
      t * t * t>>

\* Math.round of one coordinate of the curve at t thousandths
InterpolateCoord(t, a, b, c, d) ==
    LET w == BernsteinAt(t)
    IN  IF a < NaN /\ b < NaN /\ c < NaN /\ d < NaN
        THEN LET high == (w[1] \div Milli) * a + (w[2] \div Milli) * b
                         + (w[3] \div Milli) * c + (w[4] \div Milli) * d
                 low == (w[1] % Milli) * a + (w[2] % Milli) * b
                        + (w[3] % Milli) * c + (w[4] % Milli) * d
             IN  ((high + low \div Milli + (Scale \div 2) * Milli * Milli)
                     \div (Scale * Milli * Milli)) * Scale
        ELSE Combine(w, <<a, b, c, d>>)

\* BezierUtils.interpolate at t thousandths (or NaN): a new Point, so rounded
interpolate(bz, t) ==
    IF IsFinite(t)
    THEN [x |-> InterpolateCoord(t, bz.a.x, bz.b.x, bz.c.x, bz.d.x),
          y |-> InterpolateCoord(t, bz.a.y, bz.b.y, bz.c.y, bz.d.y)]
    ELSE [x |-> NaN, y |-> NaN]

\* The four control points are at finite coordinates
FiniteCurve(bz) ==
    \A p \in {bz.a, bz.b, bz.c, bz.d} : IsFinite(p.x) /\ IsFinite(p.y)

RECURSIVE SumRange(_, _, _)
\* f[low] + ... + f[high]
SumRange(f, low, high) ==
    IF low > high THEN 0
    ELSE IF low = high THEN f[low]
    ELSE SumRange(f, low, (low + high) \div 2)
         + SumRange(f, (low + high) \div 2 + 1, high)

\* The lengths the constructor's loop adds up: of the steps between the
\* samples at i / len, i = 0..len
StepLengths(bz) ==
    LET interpolation == [i \in 0..len |-> interpolate(bz, i * (Milli \div len))]
    IN  [i \in 1..len |->
            LET dx == interpolation[i - 1].x - interpolation[i].x
                dy == interpolation[i - 1].y - interpolation[i].y
            IN  ISqrt((dx * dx + dy * dy) * Scale * Scale * Scale * Scale)]

\* The table is kept as the lengths of the steps and their sums by runs of
\* Run steps
Run == 2 ^ 4

\* new BezierUtils(a, b, c, d); length is declared and never assigned
BezierUtils(a, b, c, d) ==
    LET bz == [a |-> XY(a), b |-> XY(b), c |-> XY(c), d |-> XY(d)]
        finite == FiniteCurve(bz)
        stepLengths == IF finite THEN StepLengths(bz) ELSE <<>>
    IN  [a |-> bz.a, b |-> bz.b, c |-> bz.c, d |-> bz.d,
         length |-> NaN,
         finite |-> finite,
         stepLengths |-> stepLengths,
         runLengths |->
             IF finite
             THEN [r \in 1..(len \div Run) |->
                      SumRange(stepLengths, (r - 1) * Run + 1, r * Run)]
             ELSE <<>>]

\* this.arcLengths[i]
arcLengths(bz, i) ==
    IF i = 0 THEN 0
    ELSE IF bz.finite
         THEN SumRange(bz.runLengths, 1, i \div Run)
              + SumRange(bz.stepLengths, (i \div Run) * Run + 1, i)
         ELSE NaN

RECURSIVE MapSearch(_, _, _, _, _, _)
\* The binary search of map for u = num / den: the last index probed
MapSearch(bz, num, den, low, high, index) ==
    IF low < high
    THEN LET probed == low + (high - low) \div 2
         IN  IF arcLengths(bz, probed) * den < num * arcLengths(bz, len)
             THEN MapSearch(bz, num, den, probed + 1, high, probed)
             ELSE MapSearch(bz, num, den, low, probed, probed)
    ELSE index

\* BezierUtils.map(num / den), 0 <= num <= den: the parameter in thousandths,
\* NaN for 0 / 0 and on a table that is not finite
map(bz, num, den) ==
    IF den = 0 \/ ~bz.finite THEN NaN
    ELSE LET target == num * arcLengths(bz, len)
             found == MapSearch(bz, num, den, 0, len, 0)
             index == IF arcLengths(bz, found) * den > target THEN found - 1 ELSE found
             lengthBefore == arcLengths(bz, index)
             rest == target - lengthBefore * den
             span == (arcLengths(bz, index + 1) - lengthBefore) * den
         IN  IF rest = 0 THEN index * (Milli \div len)
             ELSE ((Milli \div len) * (index * span + rest) + span \div 2) \div span

\* BezierUtils.mx and BezierUtils.my
mx(bz, num, den) == interpolate(bz, map(bz, num, den)).x
my(bz, num, den) == interpolate(bz, map(bz, num, den)).y

\* One coordinate of the unrounded curve at t = i / steps, times steps^3
LengthSample(i, a, b, c, d) ==
    LET w == Bernstein[i]
    IN  w[1] * a + w[2] * b + w[3] * c + w[4] * d

\* BezierUtils.getLength: the steps between the unrounded samples at
\* i / steps, i = 0..inc-1, added up; NaN as soon as a coordinate is not
\* finite (a weight is 0 at t = 0, and 0 * Infinity is NaN)
getLength(bz) ==
    LET x == [i \in 0..(inc - 1) |-> LengthSample(i, bz.a.x, bz.b.x, bz.c.x, bz.d.x)]
        y == [i \in 0..(inc - 1) |-> LengthSample(i, bz.a.y, bz.b.y, bz.c.y, bz.d.y)]
        step == [i \in 1..(inc - 1) |->
                    LET dx == Abs(x[i] - x[i - 1]) \div Milli
                        dy == Abs(y[i] - y[i - 1]) \div Milli
                    IN  ISqrt(dx * dx + dy * dy)]
    IN  IF FiniteCurve(bz) THEN SumRange(step, 1, inc - 1) ELSE NaN

RECURSIVE SumTo(_, _)
\* lengths[1] + ... + lengths[k], NaN if one of them is
SumTo(lengths, k) ==
    IF k = 0 THEN 0
    ELSE IF IsFinite(lengths[k]) /\ IsFinite(SumTo(lengths, k - 1))
         THEN lengths[k] + SumTo(lengths, k - 1) ELSE NaN

\* Math.floor((currentDistance / length) * shapesCount): NaN for 0 / 0 and
\* for a length that is NaN
FloorShare(currentDistance, length, shapesCount) ==
    IF ~IsFinite(currentDistance) \/ ~IsFinite(length) THEN NaN
    ELSE IF length = 0 THEN (IF currentDistance = 0 THEN NaN ELSE PInf)
    ELSE (currentDistance * shapesCount) \div length

\* The points pushed for one bezier given shapesToStick points
SegmentPoints(bz, shapesToStick, isLast) ==
    IF IsFinite(shapesToStick) /\ shapesToStick > 0
    THEN [k \in 1..shapesToStick |->
             LET den == IF isLast THEN shapesToStick - 1 ELSE shapesToStick
             IN  [x |-> MathRound(mx(bz, k - 1, den)),
                  y |-> MathRound(my(bz, k - 1, den))]]
    ELSE <<>>

RECURSIVE Concat(_, _)
\* parts[i] \o ... \o parts[Len(parts)]
Concat(parts, i) == IF i > Len(parts) THEN <<>> ELSE parts[i] \o Concat(parts, i + 1)

\* The number of shapes each bezier receives in getRegularlyPlacedPoints
ShapesToStick(beziers, lengths, shapesCount) ==
    LET length == SumTo(lengths, Len(lengths))
        \* drawnNumber after the beziers 1..k
        drawnNumber(k) ==
            IF k = 0 THEN 0
            ELSE FloorShare(SumTo(lengths, k), length, shapesCount)
    IN  [k \in 1..Len(beziers) |->
            \* index === bz.length - 1, with index = k - 1 and bz.length undefined
            IF IsFinite(beziers[k].length) /\ k - 1 = beziers[k].length - 1
            THEN Sub(shapesCount, drawnNumber(k - 1))
            ELSE Sub(drawnNumber(k), drawnNumber(k - 1))]

\* BezierCanvas.getRegularlyPlacedPoints
getRegularlyPlacedPoints(m, shapesCount) ==
    IF Len(m.constructionPoints) < 2 THEN <<>>
    ELSE LET points == m.constructionPoints
             beziers ==
                 [k \in 1..(Len(points) - 1) |->
                     BezierUtils(points[k], Outgoing(points[k]),
                                 points[k + 1].handler1, points[k + 1])]
             lengths == [k \in 1..Len(beziers) |-> getLength(beziers[k])]
             shapes == ShapesToStick(beziers, lengths, shapesCount)
         IN  Concat([k \in 1..Len(beziers) |->
                        SegmentPoints(beziers[k], shapes[k], k = Len(beziers))], 1)

----------------------------------------------------------------------------
(* The editor as a state machine *)

\* A position, and an exported record, with coordinates given in whole units
At(x, y) == [x |-> x * Scale, y |-> y * Scale]
Record1(x, y, h1x, h1y) == [x |-> x * Scale, y |-> y * Scale, hp1 |-> At(h1x, h1y)]
Record2(x, y, h1x, h1y, h2x, h2y) ==
    [x |-> x * Scale, y |-> y * Scale, hp1 |-> At(h1x, h1y), hp2 |-> At(h2x, h2y)]

\* The pointer positions of the events
Positions == {At(0, 0), At(2, 0), At(4, 0), At(3, 4)}

\* The arrays given to setPoints and as options.points
Imports ==
    {<<Record2(0, 0, -1, 0, 1, 0), Record2(4, 0, 3, 0, 5, 0)>>,
     <<Record1(0, 0, 0, 0), Record1(4, 0, 4, 0)>>}

\* The options given to the constructor
HistorySizes == {1, 2}
MaxDistances == {1}
Options ==
    [naturalDrawMode : BOOLEAN, maxDistance : MaxDistances,
     constraintTangents : BOOLEAN, historySize : HistorySizes]

\* The state super() and the field initializers leave
Constructed(opts) ==
    [constructionPoints |-> <<>>,
     currentMovingPoint |-> nullId,
     isMouseDown |-> FALSE,
     ctrlKeyIsDown |-> FALSE,
     mouseReleaseAfterConstructionPointCreation |-> TRUE,
     options |-> opts,
     historySize |-> opts.historySize,
     statesCursor |-> 0,
     statesStack |-> <<>>,
     lastHistoryStateHash |-> <<>>,
     threw |-> FALSE]

\* The variables take the values of the record m
Is(m) ==
    /\ constructionPoints = m.constructionPoints
    /\ currentMovingPoint = m.currentMovingPoint
    /\ isMouseDown = m.isMouseDown
    /\ ctrlKeyIsDown = m.ctrlKeyIsDown
    /\ mouseReleaseAfterConstructionPointCreation =
           m.mouseReleaseAfterConstructionPointCreation
    /\ options = m.options
    /\ historySize = m.historySize
    /\ statesCursor = m.statesCursor
    /\ statesStack = m.statesStack
    /\ lastHistoryStateHash = m.lastHistoryStateHash
    /\ threw = m.threw

\* new BezierCanvas(canvas, options), with or without options.points
Init ==
    /\ \E opts \in Options :
          \/ Is(Constructed(opts))
          \/ \E points \in Imports : Is(setPoints(Constructed(opts), points))
    /\ returned = <<>>
    /\ eventCount = 0

\* The state a handler starts from
Entry == [M EXCEPT !.threw = FALSE]

\* One event, handled to the end, that changed the state to m
Becomes(m) ==
    /\ eventCount < MaxEvents
    /\ m # M
    /\ Len(m.constructionPoints) <= MaxKnots
    /\ constructionPoints' = m.constructionPoints
    /\ currentMovingPoint' = m.currentMovingPoint
    /\ isMouseDown' = m.isMouseDown
    /\ ctrlKeyIsDown' = m.ctrlKeyIsDown
    /\ mouseReleaseAfterConstructionPointCreation' =
           m.mouseReleaseAfterConstructionPointCreation
    /\ options' = m.options
    /\ historySize' = m.historySize
    /\ statesCursor' = m.statesCursor
    /\ statesStack' = m.statesStack
    /\ lastHistoryStateHash' = m.lastHistoryStateHash
    /\ threw' = m.threw
    /\ eventCount' = eventCount + 1
    /\ UNCHANGED returned

\* The left button goes down only when it is up
MouseDownLeft ==
    /\ ~isMouseDown
    /\ \E position \in Positions :
          \E m \in {mousedown(Entry, position)} : Becomes(m)
MouseMove ==
    \E position \in Positions :
        \E m \in {mousemove(Entry, position)} : Becomes(m)
MouseUp == \E m \in {mouseup(Entry)} : Becomes(m)
MouseLeave == \E m \in {mouseleave(Entry)} : Becomes(m)
ContextMenu ==
    \E position \in Positions :
        \E m \in {contextmenu(Entry, position)} : Becomes(m)
KeyDown ==
    \E code \in {"Z", "Y", "Control"}, ctrlKey \in BOOLEAN :
        \E m \in {keydown(Entry, code, ctrlKey)} : Becomes(m)
KeyUp == \E m \in {keyup(Entry)} : Becomes(m)
Reset == \E m \in {reset(Entry)} : Becomes(m)
SetPoints ==
    \E points \in Imports :
        \E m \in {setPoints(Entry, points)} : Becomes(m)

Next ==
    \/ MouseDownLeft
    \/ MouseMove
    \/ MouseUp
    \/ MouseLeave
    \/ ContextMenu
    \/ KeyDown
    \/ KeyUp
    \/ Reset
    \/ SetPoints

Spec == Init /\ [][Next]_vars

----------------------------------------------------------------------------
(* The history manager driven directly: pushHistoryState applied to every   *)
(* stack, cursor and capacity within the bounds                             *)

MaxHistorySize == 3
MaxPushes == 4

\* The states pushed
Snapshots ==
    {<<>>,
     <<Record1(0, 0, 0, 0)>>,
     <<Record1(0, 0, 0, 0), Record1(4, 0, 4, 0)>>,
     <<Record2(0, 0, -1, 0, 1, 0), Record2(4, 0, 3, 0, 5, 0)>>}

StacksUpTo(n) == UNION {[1..k -> Snapshots] : k \in 0..n}

\* A history manager of capacity size holding stack with the cursor at cursor
InitHistory ==
    /\ \E size \in 1..MaxHistorySize, stack \in StacksUpTo(MaxHistorySize) :
          /\ Len(stack) <= size
          /\ \E cursor \in 0..Max(0, Len(stack) - 1) :
                Is([Constructed([naturalDrawMode |-> FALSE, maxDistance |-> 1,
                                 constraintTangents |-> FALSE, historySize |-> size])
                       EXCEPT !.statesStack = stack, !.statesCursor = cursor])
    /\ returned = <<>>
    /\ eventCount = 0

PushHistoryState ==
    \E state \in Snapshots :
        \E m \in {pushHistoryState(Entry, state)} : Becomes(m)

NextHistory == PushHistoryState

SpecHistory == InitHistory /\ [][NextHistory]_vars

----------------------------------------------------------------------------
(* History: undo, redo, push, reset                                         *)

\* Ctrl+Z and Ctrl+Y as the keydown listener receives them
CtrlZ(m) == keydown(m, "Z", TRUE)
CtrlY(m) == keydown(m, "Y", TRUE)

\* The history and the exported spline of m and n are the same
SameHistoryAndSpline(m, n) ==
    /\ getPoints(m) = getPoints(n)
    /\ m.statesStack = n.statesStack
    /\ m.statesCursor = n.statesCursor
    /\ m.lastHistoryStateHash = n.lastHistoryStateHash

\* C1: with at least two snapshots in the history, the cursor on the last one
\* and the spline equal to that snapshot, Ctrl+Z followed by Ctrl+Y leaves the
\* exported spline as it was before Ctrl+Z.
UndoThenRedoRestores ==
    (/\ Len(statesStack) >= 2
     /\ statesCursor = Len(statesStack) - 1
     /\ getPoints(M) = statesStack[Len(statesStack)])
        => getPoints(CtrlY(CtrlZ(Entry))) = getPoints(M)

\* The last n elements of s, all of s when it has fewer
LastN(s, n) == SubSeq(s, Max(1, Len(s) - n + 1), Len(s))

RECURSIVE PushAll(_, _)
\* pushHistoryState called with each state of states in turn
PushAll(m, states) ==
    IF states = <<>> THEN m
    ELSE PushAll(pushHistoryState(m, Head(states)), Tail(states))

\* C2: for historySize = N >= 1, pushing N + k states one after the other on
\* an empty history (no undo, redo or reset in between) leaves min(N, N + k)
\* snapshots, which are the most recently pushed ones in push order; the same
\* holds when the pushes continue a history whose cursor is on its last
\* snapshot.
HistoryKeepsMostRecent ==
    \A states \in StacksUpTo(MaxPushes) :
        /\ PushAll(historyReset(M), states).statesStack = LastN(states, historySize)
        /\ statesCursor = Max(0, Len(statesStack) - 1)
              => PushAll(M, states).statesStack
                     = LastN(statesStack \o states, historySize)

\* More states have been pushed than the history holds, and it holds
\* historySize of them
HistoryHasEvicted ==
    /\ historySize >= 2
    /\ eventCount > historySize
    /\ Len(statesStack) = historySize
    /\ \A i, j \in 1..Len(statesStack) : i # j => statesStack[i] # statesStack[j]

\* C3: the second of two consecutive pushHistoryStateIfChanged calls on the
\* same exported spline changes nothing, and the two calls together add one
\* snapshot when the spline differs from the one last pushed, none otherwise.
SecondPushIfChangedDoesNothing ==
    LET m1 == pushHistoryStateIfChanged(M)
        m2 == pushHistoryStateIfChanged(m1)
        kept == IF Len(statesStack) = historySize THEN Tail(statesStack)
                ELSE statesStack
    IN  /\ m2 = m1
        /\ mouseup(mouseup(Entry)) = mouseup(Entry)
        /\ m1.statesStack =
              IF <<getCurrentStateHash(M)>> # lastHistoryStateHash
              THEN Append(kept, getPoints(M)) ELSE statesStack

\* A release has pushed the spline on a history that had room left, and the
\* spline is still the one pushed
PushedOnceWithRoomLeft ==
    /\ Len(statesStack) = 1
    /\ historySize = 2
    /\ constructionPoints # <<>>
    /\ lastHistoryStateHash = <<getCurrentStateHash(M)>>

\* C4: on a non-empty stack of length L with cursor c, undo leaves the cursor
\* at max(0, c - 1) and redo at min(L - 1, c + 1), the exported spline is the
\* snapshot at that index, and statesStack is as it was.
UndoRedoMoveTheCursor ==
    Len(statesStack) > 0 =>
        LET L == Len(statesStack)
            undone == statesBackward(M)
            redone == statesForward(M)
        IN  /\ undone.statesCursor = Max(0, statesCursor - 1)
            /\ getPoints(undone) = statesStack[Max(0, statesCursor - 1) + 1]
            /\ undone.statesStack = statesStack
            /\ redone.statesCursor = Min(L - 1, statesCursor + 1)
            /\ getPoints(redone) = statesStack[Min(L - 1, statesCursor + 1) + 1]
            /\ redone.statesStack = statesStack

\* C5: undo with the cursor at 0, redo with the cursor on the last index, and
\* either of them on an empty stack, leave the exported spline, statesStack,
\* statesCursor and lastHistoryStateHash unchanged.
UndoRedoAtTheBoundsDoNothing ==
    /\ statesCursor = 0 => SameHistoryAndSpline(statesBackward(M), M)
    /\ statesCursor = Len(statesStack) - 1 => SameHistoryAndSpline(statesForward(M), M)
    /\ statesStack = <<>> =>
          /\ SameHistoryAndSpline(statesBackward(M), M)
          /\ SameHistoryAndSpline(statesForward(M), M)

\* C6: pushHistoryState with cursor c on a stack of length L removes every
\* snapshot at an index greater than c, keeps the snapshots at 0..c in order
\* except the oldest one when they fill the capacity, appends the new state
\* and leaves statesCursor = statesStack.length - 1.
PushDiscardsTheRedoBranch ==
    \A state \in Snapshots :
        LET m == pushHistoryState(M, state)
            upToCursor == SubSeq(statesStack, 1, Min(Len(statesStack), statesCursor + 1))
            before == SubSeq(m.statesStack, 1, Len(m.statesStack) - 1)
        IN  /\ m.statesStack # <<>>
            /\ m.statesStack[Len(m.statesStack)] = state
            /\ before = IF Len(upToCursor) = historySize THEN Tail(upToCursor)
                        ELSE upToCursor
            /\ m.statesCursor = Len(m.statesStack) - 1

\* A full history with snapshots after the cursor, which a push removes
RedoBranchToDiscard ==
    /\ Len(statesStack) = historySize
    /\ statesCursor < Len(statesStack) - 1
    /\ \E state \in Snapshots :
          Len(pushHistoryState(M, state).statesStack) < Len(statesStack)

\* C7: reset() from any reachable state leaves no knot, statesStack empty,
\* statesCursor 0 and lastHistoryStateHash null.
ResetClearsSplineAndHistory ==
    LET m == reset(Entry)
    IN  /\ Len(m.constructionPoints) = 0
        /\ m.statesStack = <<>>
        /\ m.statesCursor = 0
        /\ m.lastHistoryStateHash = <<>>

\* A spline with knots and a history with snapshots, hash and cursor for
\* reset() to clear
ResetHasAllToClear ==
    /\ constructionPoints # <<>>
    /\ statesStack # <<>>
    /\ statesCursor > 0
    /\ lastHistoryStateHash # <<>>
    /\ reset(Entry) # Entry

----------------------------------------------------------------------------
(* Export and import                                                        *)

\* C8: for every spline the edits can reach, setPoints(getPoints()) yields a
\* spline whose getPoints() equals the original export: the same records in
\* the same order, with the same x, y, hp1, and hp2 where it was.
ExportImportRoundTrip ==
    getPoints(setPoints(Entry, getPoints(M))) = getPoints(M)

\* C9: getPoints returns one record per knot in sequence order, with x, y and
\* hp1 those of the knot and of its handler1, and with an hp2 field exactly
\* when the knot owns a handler2, then equal to handler2's position.
ExportIsFaithful ==
    LET exported == getPoints(M)
    IN  /\ Len(exported) = Len(constructionPoints)
        /\ \A i \in 1..Len(constructionPoints) :
              LET point == constructionPoints[i]
                  record == exported[i]
              IN  /\ record.x = point.x
                  /\ record.y = point.y
                  /\ record.hp1 = [x |-> point.handler1.x, y |-> point.handler1.y]
                  /\ "hp2" \in DOMAIN record <=> point.handler2 # null
                  /\ point.handler2 # null =>
                        record.hp2 = [x |-> point.handler2.x, y |-> point.handler2.y]
                  /\ DOMAIN record \subseteq {"x", "y", "hp1", "hp2"}

\* After an edit, a spline with a knot that owns a handler2 and one that does
\* not, exported with hp2 for the first and without for the second
ExportedWithAndWithoutHp2 ==
    /\ eventCount > 0
    /\ \E i, j \in 1..Len(constructionPoints) :
          /\ constructionPoints[i].handler2 # null
          /\ constructionPoints[j].handler2 = null
          /\ "hp2" \in DOMAIN getPoints(M)[i]
          /\ "hp2" \notin DOMAIN getPoints(M)[j]
          /\ getPoints(M)[i].hp2 # getPoints(M)[i].hp1

----------------------------------------------------------------------------
(* Sampling: getRegularlyPlacedPoints applied to the splines setPoints       *)
(* builds from the records below                                             *)

MaxCount == 4

\* Knots with the handlers on them, and knots with handlers beside them
SamplingRecords ==
    {Record1(0, 0, 0, 0), Record1(4, 0, 4, 0), Record1(4, 3, 4, 3),
     Record2(0, 0, -1, 0, 1, 0), Record2(4, 0, 3, 0, 5, 0)}

SamplingImports == UNION {[1..k -> SamplingRecords] : k \in 0..MaxKnots}

InitSampling ==
    /\ \E points \in SamplingImports :
          Is(setPoints(Constructed([naturalDrawMode |-> FALSE, maxDistance |-> 1,
                                    constraintTangents |-> FALSE, historySize |-> 1]),
                       points))
    /\ returned = <<>>
    /\ eventCount = 0

\* getRegularlyPlacedPoints(shapesCount) called once on the spline built, and
\* what it returned
GetRegularlyPlacedPoints ==
    /\ returned = <<>>
    /\ \E shapesCount \in 1..MaxCount :
          returned' = <<[shapesCount |-> shapesCount,
                         points |-> getRegularlyPlacedPoints(M, shapesCount)]>>
    /\ UNCHANGED <<constructionPoints, currentMovingPoint, isMouseDown, ctrlKeyIsDown,
                   mouseReleaseAfterConstructionPointCreation, options, historySize,
                   statesCursor, statesStack, lastHistoryStateHash, threw, eventCount>>

NextSampling == GetRegularlyPlacedPoints

SpecSampling == InitSampling /\ [][NextSampling]_vars

\* C10: for a spline of at least 2 knots, segments of zero length included,
\* and an integer count >= 1, getRegularlyPlacedPoints(count) returns exactly
\* count points; with fewer than 2 knots it returns the empty sequence.
SamplingReturnsCountPoints ==
    returned # <<>> =>
        IF Len(constructionPoints) >= 2
        THEN Len(returned[1].points) = returned[1].shapesCount
        ELSE returned[1].points = <<>>

\* C11: whenever getRegularlyPlacedPoints(count) returns a non-empty sequence,
\* the last point returned has the coordinates of the last knot (the final
\* segment being sampled up to the parameter 1), whatever share of the count
\* the final segment receives, a share of one point included.
LastSampleOnLastKnot ==
    (returned # <<>> /\ returned[1].points # <<>>) =>
        LET points == returned[1].points
            last == constructionPoints[Len(constructionPoints)]
        IN  points[Len(points)] = XY(last)

----------------------------------------------------------------------------
(* Queries: getPoints and getRegularlyPlacedPoints called on an imported     *)
(* spline, as imported, with a knot selected, after a release of the button  *)
(* or both.  Neither query assigns a field of the canvas or of a point: the  *)
(* BezierUtils they build keep references to the knots and handlers and      *)
(* every Point they create is a new one.                                     *)

QueryImports == UNION {[1..k -> SamplingRecords] : k \in 0..2}

\* The spline imported; then Ctrl down and the button pressed on the first
\* knot; then the button released
QueriedStates(points) ==
    LET opts == [naturalDrawMode |-> FALSE, maxDistance |-> 1,
                 constraintTangents |-> FALSE, historySize |-> 2]
        imported == setPoints(Constructed(opts), points)
        position == IF points = <<>> THEN At(0, 0) ELSE XY(points[1])
        selected == selectPointToMove(
                        [keydown(imported, "Control", TRUE) EXCEPT !.isMouseDown = TRUE],
                        position)
    IN  {[m |-> imported, events |-> 0],
         [m |-> mouseup(imported), events |-> 1],
         [m |-> selected, events |-> 2],
         [m |-> mouseup(selected), events |-> 3]}

InitQueries ==
    /\ \E points \in QueryImports :
          \E s \in QueriedStates(points) :
              /\ Is(s.m)
              /\ eventCount = s.events
    /\ returned = <<>>

\* getPoints() resetting the active point as it exports
GetPointsResettingActivePoint ==
    /\ returned = <<>>
    /\ returned' = <<[points |-> getPoints(M)]>>
    /\ constructionPoints' = resetActivePoint(constructionPoints)
    /\ currentMovingPoint' = nullId
    /\ UNCHANGED <<isMouseDown, ctrlKeyIsDown,
                   mouseReleaseAfterConstructionPointCreation, options, historySize,
                   statesCursor, statesStack, lastHistoryStateHash, threw, eventCount>>

\* getPoints() called on the spline, and what it returned
GetPoints ==
    /\ returned = <<>>
    /\ returned' = <<[points |-> getPoints(M)]>>
    /\ UNCHANGED <<constructionPoints, currentMovingPoint, isMouseDown, ctrlKeyIsDown,
                   mouseReleaseAfterConstructionPointCreation, options, historySize,
                   statesCursor, statesStack, lastHistoryStateHash, threw, eventCount>>

NextQueries ==
    \/ GetPoints
    \/ GetRegularlyPlacedPoints

SpecQueries == InitQueries /\ [][NextQueries]_vars

\* C12: getRegularlyPlacedPoints(count) and getPoints() leave every knot and
\* handler (position, order, active flag), the active point and the history
\* (statesStack, statesCursor, lastHistoryStateHash) as they were, in every
\* reachable state and for every count.  (A step that changes `returned` is a
\* query's.)
QueriesNeverMutate ==
    [][returned' # returned =>
          UNCHANGED <<constructionPoints, currentMovingPoint, statesStack,
                      statesCursor, lastHistoryStateHash>>]_vars

\* Points have been sampled on a spline with an active point and a history
QueriedWithActivePointAndHistory ==
    /\ returned # <<>>
    /\ "shapesCount" \in DOMAIN returned[1]
    /\ returned[1].points # <<>>
    /\ currentMovingPoint # nullId
    /\ \E i \in 1..Len(constructionPoints) :
          constructionPoints[i].active \/ constructionPoints[i].handler1.active
    /\ statesStack # <<>>
    /\ lastHistoryStateHash # <<>>

----------------------------------------------------------------------------
(* Drawing: the edits of the pointer and of the keyboard on a spline that    *)
(* was drawn, with no import in between.  The canvas starts empty, or with   *)
(* the two knots that two clicks draw in its mode (in natural mode each      *)
(* click followed by a drag of the pencil).                                  *)

DrawnSpline(natural) ==
    IF natural
    THEN <<Record2(0, 0, -1, 0, 1, 0), Record2(4, 0, 3, 0, 5, 0)>>
    ELSE <<Record1(0, 0, 0, 0), Record1(4, 0, 4, 0)>>

InitDrawing ==
    /\ \E opts \in Options :
          \/ Is(Constructed(opts))
          \/ Is(setPoints(Constructed(opts), DrawnSpline(opts.naturalDrawMode)))
    /\ returned = <<>>
    /\ eventCount = 0

NextDrawing ==
    \/ MouseDownLeft
    \/ MouseMove
    \/ MouseUp
    \/ MouseLeave
    \/ ContextMenu
    \/ KeyDown
    \/ KeyUp
    \/ Reset

SpecDrawing == InitDrawing /\ [][NextDrawing]_vars

\* C13: with naturalDrawMode = true, after any sequence of appends, insertions
\* on the curve, right-click removals, drags of knots and handlers, undo and
\* redo on a drawn spline, every knot owns both handler1 and handler2.
NaturalKnotsOwnBothHandlers ==
    options.naturalDrawMode =>
        \A i \in 1..Len(constructionPoints) :
            /\ constructionPoints[i].handler1 # null
            /\ constructionPoints[i].handler2 # null

\* In natural mode a knot has been inserted on the curve between two others
InsertedInNaturalMode ==
    /\ options.naturalDrawMode
    /\ Len(constructionPoints) = 3
    /\ constructionPoints[2].fromCasteljau
    /\ constructionPoints[2].handler2 # null
    /\ constructionPoints[1].handler2 # null
    /\ constructionPoints[3].handler2 # null

\* The knots a right click at one of the positions removes, as indices
RemovableAt(position) ==
    {i \in 1..Len(constructionPoints) :
        findClosestConstructionPoint(Entry, position.x, position.y) = i}

----------------------------------------------------------------------------
(* Appending, coordinates, insertion and removal                            *)

\* C15: in every reachable state of either draw mode, splines imported by
\* setPoints from records without hp2 included, a left mousedown without Ctrl
\* at a position off the curve ends without an error and leaves one more
\* knot, the new one last and at the position of the click.
AppendAlwaysSucceeds ==
    \A position \in Positions :
        (~ctrlKeyIsDown /\ ~findPointOnSpline(Entry, position.x, position.y).found) =>
            LET m == mousedown(Entry, position)
                n == Len(m.constructionPoints)
            IN  /\ ~m.threw
                /\ n = Len(constructionPoints) + 1
                /\ XY(m.constructionPoints[n]) = position

\* A coordinate is an integer: finite and a whole number of units
IsInteger(v) == IsFinite(v) /\ v % Scale = 0

\* C16: in every reachable state every knot and every handler of the spline
\* has integer x and y, after any sequence of appends, insertions, removals
\* and drags of knots and handlers, tangent constraint enabled included.
IntegerCoordinates ==
    \A i \in 1..Len(constructionPoints) :
        LET point == constructionPoints[i]
        IN  /\ IsInteger(point.x) /\ IsInteger(point.y)
            /\ IsInteger(point.handler1.x) /\ IsInteger(point.handler1.y)
            /\ point.handler2 # null =>
                  IsInteger(point.handler2.x) /\ IsInteger(point.handler2.y)

----------------------------------------------------------------------------
(* Subdivision: knotInsertion applied to a segment at a parameter, and       *)
(* removeConstructionPoint applied to an inserted knot                       *)

\* Two-knot splines: the segment's four control points
Segments ==
    {<<Record2(0, 0, -1, 0, 1, 0), Record2(4, 0, 3, 0, 5, 0)>>,
     <<Record2(0, 0, -10, 0, 10, 0), Record2(40, 0, 30, 0, 50, 0)>>,
     <<Record2(0, 0, 0, -10, 0, 10), Record2(40, 0, 40, 10, 40, -10)>>,
     <<Record1(0, 0, 0, 0), Record1(4, 0, 4, 0)>>}

\* The parameters of the insertions made, as numbers of steps
Parameters == {0, 25, 50, 75, steps}

InitSubdivision ==
    /\ \E natural \in BOOLEAN, points \in Segments :
          Is(setPoints(Constructed([naturalDrawMode |-> natural, maxDistance |-> 1,
                                    constraintTangents |-> FALSE, historySize |-> 1]),
                       points))
    /\ returned = <<>>
    /\ eventCount = 0

\* knotInsertion(t, P0, P1, P2, P3) for the segment that starts at knot index
InsertedAt(m, index, t) ==
    LET cps == m.constructionPoints
    IN  knotInsertion(m, t, cps[index], Outgoing(cps[index]),
                      cps[index + 1].handler1, cps[index + 1])

KnotInsertion ==
    \E index \in 1..(Len(constructionPoints) - 1), t \in Parameters :
        \E m \in {InsertedAt(Entry, index, t)} : Becomes(m)

RemoveConstructionPoint ==
    \E i \in 1..Len(constructionPoints) :
        /\ constructionPoints[i].fromCasteljau
        /\ \E m \in {removeConstructionPoint(Entry, constructionPoints[i])} : Becomes(m)

NextSubdivision ==
    \/ KnotInsertion
    \/ RemoveConstructionPoint

SpecSubdivision == InitSubdivision /\ [][NextSubdivision]_vars

\* C17: for every segment P0, P1, P2, P3 and parameter t, knotInsertion(t, P0,
\* P1, P2, P3) followed by removeConstructionPoint of the knot inserted leaves
\* P1 and P2 at their original positions (and P0, P3 where they were),
\* whenever neither handler of the inserted knot coincides with the knot.
SubdivisionInverse ==
    \A index \in 1..(Len(constructionPoints) - 1), t \in 0..steps :
        LET P0 == constructionPoints[index]
            P1 == Outgoing(P0)
            P3 == constructionPoints[index + 1]
            P2 == P3.handler1
            inserted == InsertedAt(Entry, index, t)
            knot == inserted.constructionPoints[index + 1]
            removed == removeConstructionPoint(inserted, knot).constructionPoints
        IN  (XY(knot.handler1) # XY(knot) /\ XY(knot.handler2) # XY(knot)) =>
                /\ XY(Outgoing(removed[index])) = XY(P1)
                /\ XY(removed[index + 1].handler1) = XY(P2)
                /\ XY(removed[index]) = XY(P0)
                /\ XY(removed[index + 1]) = XY(P3)

\* C18: when a knot with fromCasteljau and both neighbours is removed and
\* k = distance(handler2, knot) / distance(handler1, knot) is zero, infinite
\* or undefined, the previous knot's outgoing handler and the next knot's
\* handler1 keep their prior, finite coordinates.
DegenerateRemovalLeavesNeighbours ==
    \A i \in 2..(Len(constructionPoints) - 1) :
        LET knot == constructionPoints[i]
            k == QuotientKind(getDistance2(knot.handler2, knot),
                              getDistance2(knot.handler1, knot))
            P1 == Outgoing(constructionPoints[i - 1])
            P2 == constructionPoints[i + 1].handler1
            removed == removeConstructionPoint(Entry, knot).constructionPoints
        IN  (knot.fromCasteljau /\ k # "finite") =>
                /\ XY(Outgoing(removed[i - 1])) = XY(P1)
                /\ XY(removed[i].handler1) = XY(P2)
                /\ IsFinite(P1.x) /\ IsFinite(P1.y)
                /\ IsFinite(P2.x) /\ IsFinite(P2.y)

----------------------------------------------------------------------------
(* Dragging a handler with constraintTangents, and the knot hit test        *)

\* A knot with both handlers on it, as a click and release in natural mode
\* leaves it
DrawnKnot(position) ==
    [x |-> position.x, y |-> position.y, hp1 |-> position, hp2 |-> position]

\* new BezierCanvas(canvas, options) with one such knot as options.points
InitDragging ==
    /\ \E opts \in Options, position \in Positions :
          Is(setPoints(Constructed(opts), <<DrawnKnot(position)>>))
    /\ returned = <<>>
    /\ eventCount = 0

SpecDragging == InitDragging /\ [][Next]_vars

\* C19: while a handler of an already released knot is dragged with
\* constraintTangents and the opposite handler lies exactly on the knot, the
\* opposite handler's coordinates stay unchanged and finite for every drag
\* position, the knot's own position included.
TangentMirroringSkipsOnZeroDistance ==
    \A i \in 1..Len(constructionPoints) :
        \A position \in Positions \cup {XY(constructionPoints[i])} :
            LET parent == constructionPoints[i]
                first == parent.handler1.id = currentMovingPoint
                second == parent.handler2 # null /\ parent.handler2.id = currentMovingPoint
                opposite == IF first THEN parent.handler2 ELSE parent.handler1
                after == mousemove(Entry, position).constructionPoints[i]
                mirrored == IF first THEN after.handler2 ELSE after.handler1
            IN  (/\ isMouseDown
                 /\ options.constraintTangents
                 /\ mouseReleaseAfterConstructionPointCreation
                 /\ currentMovingPoint # nullId
                 /\ first \/ second
                 /\ opposite # null
                 /\ XY(opposite) = XY(parent)) =>
                    /\ XY(mirrored) = XY(opposite)
                    /\ IsFinite(mirrored.x)
                    /\ IsFinite(mirrored.y)

\* C20: for every query position, findClosestConstructionPoint returns the
\* first knot in sequence order whose distance to the position is strictly
\* below maxDistance, also when several knots are within the threshold, and
\* null when none is.
HitTestReturnsFirstMatch ==
    \A position \in Positions :
        LET within == {i \in 1..Len(constructionPoints) :
                          Below(getDistance2(position, constructionPoints[i]),
                                options.maxDistance)}
            foundPoint == findClosestConstructionPoint(Entry, position.x, position.y)
        IN  IF within = {}
            THEN foundPoint = 0
            ELSE foundPoint = CHOOSE i \in within : \A j \in within : i <= j

----------------------------------------------------------------------------
(* Frames of the click, the removal and the insertion                       *)

\* The identities of the knots, in sequence order
KnotIds(cps) == [i \in 1..Len(cps) |-> cps[i].id]

\* A point's identity and coordinates (null for no point)
Placed(p) == IF p = null THEN null ELSE [id |-> p.id, x |-> p.x, y |-> p.y]

\* Number, order and positions of the knots and their handlers
Geometry(cps) ==
    [i \in 1..Len(cps) |->
        [knot |-> Placed(cps[i]),
         handler1 |-> Placed(cps[i].handler1),
         handler2 |-> Placed(cps[i].handler2)]]

\* C21: a left mousedown without Ctrl adds exactly one knot, inserted after
\* the segment's start knot when the click projects onto the curve within
\* maxDistance and appended last otherwise; a left mousedown with Ctrl changes
\* neither the number, the order nor the positions of knots and handlers.
LeftClickAddsOneKnot ==
    \A position \in Positions :
        LET after == mousedown(Entry, position).constructionPoints
            pointOnSpline == findPointOnSpline(Entry, position.x, position.y)
            n == Len(constructionPoints)
        IN  IF ctrlKeyIsDown
            THEN Geometry(after) = Geometry(constructionPoints)
            ELSE /\ Len(after) = n + 1
                 /\ IF pointOnSpline.found
                    THEN /\ after[pointOnSpline.position - 1].id = pointOnSpline.P0.id
                         /\ after[pointOnSpline.position].fromCasteljau
                         /\ KnotIds(RemoveAt(after, pointOnSpline.position)) =
                                KnotIds(constructionPoints)
                    ELSE /\ XY(after[n + 1]) = position
                         /\ KnotIds(SubSeq(after, 1, n)) = KnotIds(constructionPoints)

\* A click on the first of two segments has inserted a knot, and Ctrl is up
ClickedOnFirstSegment ==
    /\ ~ctrlKeyIsDown
    /\ isMouseDown
    /\ Len(constructionPoints) = 3
    /\ constructionPoints[2].fromCasteljau
    /\ constructionPoints[2].active

\* C22: removeConstructionPoint(K) for a knot K of the sequence takes exactly K
\* out: one knot fewer, the other knots keep identity, order and position, and
\* no handler changes but the predecessor's outgoing handler, the successor's
\* handler1 and, in classical mode, the handlers of the new first and last
\* knots.
RemovalRemovesTargetedKnot ==
    \A k \in 1..Len(constructionPoints) :
        LET removed == removeConstructionPoint(Entry, constructionPoints[k]).constructionPoints
            rest == [j \in 1..(Len(constructionPoints) - 1) |->
                        IF j < k THEN constructionPoints[j] ELSE constructionPoints[j + 1]]
            ends == IF options.naturalDrawMode THEN {} ELSE {1, Len(rest)}
            outgoing == IF k > 1 /\ rest[k - 1].handler2 = null THEN {k - 1} ELSE {}
        IN  /\ Len(removed) = Len(constructionPoints) - 1
            /\ KnotIds(removed) = KnotIds(rest)
            /\ \A j \in 1..Len(rest) :
                  /\ XY(removed[j]) = XY(rest[j])
                  /\ j \notin {k} \cup outgoing \cup ends =>
                        Placed(removed[j].handler1) = Placed(rest[j].handler1)
                  /\ j \notin {k - 1} \cup ends =>
                        Placed(removed[j].handler2) = Placed(rest[j].handler2)

\* The removal of an inserted knot between two others is at hand, and its
\* fusion moves the predecessor's outgoing handler
RemovalFusesNeighbours ==
    /\ Len(constructionPoints) = 3
    /\ constructionPoints[2].fromCasteljau
    /\ LET removed == removeConstructionPoint(Entry, constructionPoints[2]).constructionPoints
       IN  /\ Len(removed) = 2
           /\ XY(Outgoing(removed[1])) # XY(Outgoing(constructionPoints[1]))
           /\ IsFinite(Outgoing(removed[1]).x)

----------------------------------------------------------------------------
(* History: the cursor, the size, what a snapshot holds and when it is taken *)

\* C23: in every reachable state, whatever pushes, undo, redo, reset and
\* import came before, 0 <= statesCursor <= statesStack.length - 1 when
\* statesStack is not empty, and statesCursor = 0 when it is.
CursorWithinStack ==
    IF statesStack = <<>>
    THEN statesCursor = 0
    ELSE 0 <= statesCursor /\ statesCursor <= Len(statesStack) - 1

\* Two snapshots have been pushed and the cursor is on the second
CursorOnSecondSnapshot ==
    /\ Len(statesStack) = 2
    /\ statesCursor = 1
\* BezierCanvas.setOptions with {historySize: size}
setOptions(m, size) == [m EXCEPT !.options.historySize = size]

\* The values of options.historySize given to the constructor and to setOptions
AnyHistorySizes == 0..2

\* new BezierCanvas(canvas, {historySize: size, naturalDrawMode: natural})
InitOptions ==
    /\ \E natural \in BOOLEAN, size \in AnyHistorySizes :
          Is(Constructed([naturalDrawMode |-> natural, maxDistance |-> 1,
                          constraintTangents |-> FALSE, historySize |-> size]))
    /\ returned = <<>>
    /\ eventCount = 0

SetOptions ==
    \E size \in AnyHistorySizes :
        \E m \in {setOptions(Entry, size)} : Becomes(m)

NextOptions ==
    \/ SetOptions
    \/ MouseDownLeft
    \/ MouseUp
    \/ KeyDown

SpecOptions == InitOptions /\ [][NextOptions]_vars

\* C24: in every reachable state statesStack holds at most options.historySize
\* snapshots, for every non-negative integer value of the option, and also
\* after setOptions has changed it following construction.
HistoryWithinSize == Len(statesStack) <= options.historySize
\* The knots of the two splines agree in position, handlers and fromCasteljau
SameKnots(cps, others) ==
    /\ Len(cps) = Len(others)
    /\ \A i \in 1..Len(cps) :
          /\ XY(cps[i]) = XY(others[i])
          /\ XY(cps[i].handler1) = XY(others[i].handler1)
          /\ (cps[i].handler2 = null) = (others[i].handler2 = null)
          /\ cps[i].handler2 # null => XY(cps[i].handler2) = XY(others[i].handler2)
          /\ cps[i].fromCasteljau = others[i].fromCasteljau

\* C25: when undo or redo applies the snapshot taken of the present spline,
\* every knot's position, handler1, handler2 and fromCasteljau flag are
\* afterwards what they were when the snapshot was taken, and removing a knot
\* created by subdivision then gives the spline its removal gave before.
SnapshotRestoresSpline ==
    \A key \in {"Z", "Y"} :
        (/\ statesStack # <<>>
         /\ statesCursor = (IF key = "Z" THEN 0 ELSE Len(statesStack) - 1)
         /\ statesStack[statesCursor + 1] = getPoints(M)) =>
            LET restored == keydown(Entry, key, TRUE)
            IN  /\ SameKnots(restored.constructionPoints, constructionPoints)
                /\ \A i \in 1..Len(constructionPoints) :
                      constructionPoints[i].fromCasteljau =>
                          getPoints(removeConstructionPoint(
                                        restored, restored.constructionPoints[i]))
                              = getPoints(removeConstructionPoint(
                                              Entry, constructionPoints[i]))
\* The snapshot at statesStack[statesCursor] is the exported state of m
Captured(m) ==
    /\ m.statesCursor + 1 \in 1..Len(m.statesStack)
    /\ m.statesStack[m.statesCursor + 1] = getPoints(m)

\* C26: after a mouseup, a mouseleave, and a contextmenu that removes a knot,
\* the snapshot at statesStack[statesCursor] equals the exported state.
SettledEditIsCaptured ==
    /\ Captured(mouseup(Entry))
    /\ Captured(mouseleave(Entry))
    /\ \A position \in Positions :
          RemovableAt(position) # {} => Captured(contextmenu(Entry, position))
\* The release listeners' results, and the results of the listeners and calls
\* other than the left mousedown
Released(m) == {mouseup(m), mouseleave(m)}
WithoutMouseDown(m) ==
    Released(m)
        \cup {keyup(m), reset(m)}
        \cup {mousemove(m, position) : position \in Positions}
        \cup {contextmenu(m, position) : position \in Positions}
        \cup {keydown(m, code, ctrlKey) : code \in {"Z", "Y", "Control"}, ctrlKey \in BOOLEAN}
        \cup {setPoints(m, points) : points \in Imports}

\* C27: a mouseup or mouseleave ends the drag: it leaves isMouseDown false,
\* no listener or call but the left mousedown sets it again, and while it is
\* false a mousemove changes neither the spline nor the history; the mouseup
\* or mouseleave itself pushes a snapshot exactly when the exported state's
\* hash differs from lastHistoryStateHash.
ReleaseEndsTheDrag ==
    /\ \A m \in Released(Entry) :
          /\ ~m.isMouseDown
          /\ IF <<getCurrentStateHash(M)>> # lastHistoryStateHash
             THEN /\ m.statesStack # statesStack
                  /\ m.statesStack[Len(m.statesStack)] = getPoints(M)
                  /\ m.statesCursor = Len(m.statesStack) - 1
             ELSE /\ m.statesStack = statesStack
                  /\ m.statesCursor = statesCursor
    /\ ~isMouseDown =>
          /\ \A m \in WithoutMouseDown(Entry) : ~m.isMouseDown
          /\ \A position \in Positions :
                LET m == mousemove(Entry, position)
                IN  /\ m.constructionPoints = constructionPoints
                    /\ m.statesStack = statesStack
                    /\ m.statesCursor = statesCursor
                    /\ m.lastHistoryStateHash = lastHistoryStateHash

\* The pointer was released after a click: the snapshot is pushed and the
\* point that was being moved is still the current moving point
ReleasedWithMovingPoint ==
    /\ ~isMouseDown
    /\ currentMovingPoint # nullId
    /\ statesStack # <<>>
    /\ statesStack[Len(statesStack)] = getPoints(M)
    /\ \E position \in Positions :
          mousemove([Entry EXCEPT !.isMouseDown = TRUE], position).constructionPoints
              # constructionPoints
\* C28: knotInsertion(t, P0, P1, P2, P3) on the segment that starts at knot
\* index adds exactly one knot, at index + 1, located at P9 with handler1 at
\* P7 and handler2 at P8, fromCasteljau and active; the other knots keep
\* identity, order and position; P1 and P2 are the same points of the same
\* knots, at P4 and P6; every other handler is unchanged.
SubdivisionStructureAndFrame ==
    \A index \in 1..(Len(constructionPoints) - 1), t \in 0..steps :
        LET n == Len(constructionPoints)
            P0 == constructionPoints[index]
            P1 == Outgoing(P0)
            P3 == constructionPoints[index + 1]
            P2 == P3.handler1
            P4 == weighted(P0, P1, t)
            P5 == weighted(P1, P2, t)
            P6 == weighted(P2, P3, t)
            P7 == weighted(P4, P5, t)
            P8 == weighted(P5, P6, t)
            P9 == weighted(P7, P8, t)
            inserted == InsertedAt(Entry, index, t).constructionPoints
            newPoint == inserted[index + 1]
            others == RemoveAt(inserted, index + 1)
        IN  /\ Len(inserted) = n + 1
            /\ newPoint.id \notin {constructionPoints[i].id : i \in 1..n}
            /\ XY(newPoint) = XY(P9)
            /\ XY(newPoint.handler1) = XY(P7)
            /\ XY(newPoint.handler2) = XY(P8)
            /\ newPoint.fromCasteljau
            /\ newPoint.active
            /\ \A i \in 1..n :
                  /\ Placed(others[i]) = Placed(constructionPoints[i])
                  /\ Placed(others[i].handler1) =
                        IF constructionPoints[i].handler1.id = P1.id
                        THEN [id |-> P1.id, x |-> P4.x, y |-> P4.y]
                        ELSE IF i = index + 1
                        THEN [id |-> P2.id, x |-> P6.x, y |-> P6.y]
                        ELSE Placed(constructionPoints[i].handler1)
                  /\ Placed(others[i].handler2) =
                        IF i = index /\ P0.handler2 # null
                        THEN [id |-> P1.id, x |-> P4.x, y |-> P4.y]
                        ELSE Placed(constructionPoints[i].handler2)

\* A knot has been inserted between two others, away from its own handlers
InsertedBetweenNeighbours ==
    /\ Len(constructionPoints) = 3
    /\ constructionPoints[2].fromCasteljau
    /\ constructionPoints[2].active
    /\ currentMovingPoint = constructionPoints[2].id
    /\ XY(constructionPoints[2].handler1) # XY(constructionPoints[2])
    /\ XY(constructionPoints[2].handler2) # XY(constructionPoints[2])
----------------------------------------------------------------------------
(* The projection onto the curve                                            *)

\* The sample of the segment that starts at knot index, at t = i / steps
SampleOf(cps, index, i) ==
    cubicBezierInterpolate(i, cps[index], Outgoing(cps[index]),
                           cps[index + 1].handler1, cps[index + 1])

\* C29: findPointOnSpline returns null exactly when no sample (t = i / 100,
\* i in 0..100, on each segment) lies within maxDistance, inclusive, of the
\* query; otherwise the sample returned is at the minimum distance among all
\* samples of all segments, the earliest segment and smallest t on ties, and
\* t, position and P0..P3 are those of its segment (position: the slot after
\* the start knot).
ProjectionPicksMinimum ==
    \A query \in Positions :
        LET cps == constructionPoints
            samples == (1..(Len(cps) - 1)) \X (0..steps)
            d2(s) == getDistance2(SampleOf(cps, s[1], s[2]), query)
            bound == (options.maxDistance * Scale) * (options.maxDistance * Scale)
            pointOnSpline == findPointOnSpline(Entry, query.x, query.y)
            kept == <<pointOnSpline.position - 1, pointOnSpline.t>>
        IN  /\ pointOnSpline.found <=> \E s \in samples : d2(s) <= bound
            /\ pointOnSpline.found =>
                  /\ kept \in samples
                  /\ d2(kept) <= bound
                  /\ pointOnSpline.distance = d2(kept)
                  /\ XY(pointOnSpline.point) = XY(SampleOf(cps, kept[1], kept[2]))
                  /\ \A s \in samples :
                        \/ d2(kept) < d2(s)
                        \/ /\ d2(kept) = d2(s)
                           /\ (kept[1] < s[1] \/ (kept[1] = s[1] /\ kept[2] <= s[2]))
                  /\ pointOnSpline.P0 = cps[kept[1]]
                  /\ pointOnSpline.P1 = Outgoing(cps[kept[1]])
                  /\ pointOnSpline.P2 = cps[kept[1] + 1].handler1
                  /\ pointOnSpline.P3 = cps[kept[1] + 1]
\* A query has a sample of the curve under it, past the start of its segment,
\* and the next sample of the segment is at the same rounded point
ProjectedOntoRepeatedSample ==
    \E query \in Positions :
        LET pointOnSpline == findPointOnSpline(Entry, query.x, query.y)
        IN  /\ pointOnSpline.found
            /\ pointOnSpline.t > 0
            /\ pointOnSpline.t < steps
            /\ SampleOf(constructionPoints, pointOnSpline.position - 1, pointOnSpline.t + 1)
                  = XY(pointOnSpline.point)
----------------------------------------------------------------------------
(* The arc-length map                                                        *)

\* u takes the values num / MaxParts, num = 0..MaxParts
MaxParts == 4

\* The sampler of the segment that starts at knot k
SamplerOf(cps, k) ==
    BezierUtils(cps[k], Outgoing(cps[k]), cps[k + 1].handler1, cps[k + 1])

\* C30: for the sampler of every segment, short and degenerate ones whose
\* rounded samples repeat included, map(0) = 0 and map(1) = 1, and for every
\* u in [0, 1] map returns a parameter in [0, 1].
MapEndpoints ==
    \A k \in 1..(Len(constructionPoints) - 1) :
        LET bz == SamplerOf(constructionPoints, k)
        IN  /\ map(bz, 0, 1) = 0
            /\ map(bz, 1, 1) = Milli
            /\ \A num \in 0..MaxParts :
                  /\ 0 <= map(bz, num, MaxParts)
                  /\ map(bz, num, MaxParts) <= Milli

----------------------------------------------------------------------------
(* Dragging: a knot with its handlers, and the pencil after an append       *)

\* handler - knot, by coordinate
Offset(h, knot) == [x |-> Sub(h.x, knot.x), y |-> Sub(h.y, knot.y)]

\* C31: when the active point is a knot and a mousemove is processed, the knot
\* moves to the pointer position, each handle it owns is the same point at
\* the same offset from the knot as before, and no other knot or handle
\* changes.
KnotDragTranslatesHandles ==
    \A i \in 1..Len(constructionPoints), position \in Positions :
        (isMouseDown /\ currentMovingPoint = constructionPoints[i].id) =>
            LET knot == constructionPoints[i]
                after == mousemove(Entry, position).constructionPoints
            IN  /\ Len(after) = Len(constructionPoints)
                /\ after[i].id = knot.id
                /\ XY(after[i]) = position
                /\ after[i].handler1.id = knot.handler1.id
                /\ Offset(after[i].handler1, after[i]) = Offset(knot.handler1, knot)
                /\ after[i].handler2.id = knot.handler2.id
                /\ knot.handler2 # null =>
                      Offset(after[i].handler2, after[i]) = Offset(knot.handler2, knot)
                /\ \A j \in 1..Len(after) : j # i => after[j] = constructionPoints[j]

\* A knot owning two handles off it is the active point and has been dragged
\* to a position where no knot was
KnotDraggedWithBothHandles ==
    /\ isMouseDown
    /\ \E i \in 1..Len(constructionPoints) :
          LET knot == constructionPoints[i]
          IN  /\ currentMovingPoint = knot.id
              /\ XY(knot) = At(3, 4)
              /\ knot.handler2 # null
              /\ XY(knot.handler1) # XY(knot)
              /\ XY(knot.handler2) # XY(knot)
              /\ XY(knot.handler1) # XY(knot.handler2)

\* The new knot after the pencil has moved to position: the knot where it was,
\* handler2 at the pointer, handler1 its reflection through the knot
PencilMirrors(before, after, position) ==
    /\ after.id = before.id
    /\ XY(after) = XY(before)
    /\ after.handler2.id = before.handler2.id
    /\ XY(after.handler2) = position
    /\ after.handler1.id = before.handler1.id
    /\ IsFinite(after.handler1.x) /\ IsFinite(after.handler1.y)
    /\ after.handler1.x + after.handler2.x = 2 * after.x
    /\ after.handler1.y + after.handler2.y = 2 * after.y

\* C32: in natural mode with constraintTangents, between the mousedown that
\* appended a knot and the following mouseup, after every processed mousemove
\* the new knot's handler2 is at the pointer position, its handler1 is the
\* reflection of that position through the knot and the knot has not moved:
\* in every state where the pencil is down on a new knot, and for the append
\* of every state followed by a mousemove.
PencilPhaseMirroring ==
    (options.naturalDrawMode /\ options.constraintTangents) =>
        /\ \A i \in 1..Len(constructionPoints), position \in Positions :
              (/\ isMouseDown
               /\ ~mouseReleaseAfterConstructionPointCreation
               /\ currentMovingPoint # nullId
               /\ constructionPoints[i].handler2.id = currentMovingPoint) =>
                  LET after == mousemove(Entry, position).constructionPoints
                  IN  /\ Len(after) = Len(constructionPoints)
                      /\ PencilMirrors(constructionPoints[i], after[i], position)
        /\ \A click \in Positions, position \in Positions :
              (/\ ~isMouseDown
               /\ ~ctrlKeyIsDown
               /\ ~findPointOnSpline(Entry, click.x, click.y).found) =>
                  LET appended == [mousedown(Entry, click) EXCEPT !.threw = FALSE]
                      n == Len(appended.constructionPoints)
                      after == mousemove(appended, position).constructionPoints
                  IN  /\ XY(appended.constructionPoints[n]) = click
                      /\ Len(after) = n
                      /\ PencilMirrors(appended.constructionPoints[n], after[n], position)

\* The pencil is down on a knot just appended and has moved off it
PencilMovedOffNewKnot ==
    /\ options.naturalDrawMode
    /\ options.constraintTangents
    /\ isMouseDown
    /\ ~mouseReleaseAfterConstructionPointCreation
    /\ constructionPoints # <<>>
    /\ LET knot == constructionPoints[Len(constructionPoints)]
       IN  /\ knot.handler2.id = currentMovingPoint
           /\ XY(knot.handler2) # XY(knot)
           /\ XY(knot.handler1) # XY(knot)
           /\ XY(knot.handler1) # XY(knot.handler2)

----------------------------------------------------------------------------
(* The active point after a removal                                         *)

\* No point is tracked in m: a processed mousemove moves nothing, and no
\* listener or call but the left mousedown gives m a point to move
NothingTracked(m) ==
    /\ m.currentMovingPoint = nullId
    /\ \A position \in Positions :
          mousemove([m EXCEPT !.isMouseDown = TRUE], position).constructionPoints
              = m.constructionPoints
    /\ \A n \in WithoutMouseDown(m) : n.currentMovingPoint = nullId

\* C33: after removeConstructionPoint(K) of the knot K that currentMovingPoint
\* holds, currentMovingPoint is null, and while it is null mousemove events
\* move nothing and only a left mousedown (which selects or creates a point)
\* sets it again.
RemovalClearsActiveTracking ==
    /\ \A k \in 1..Len(constructionPoints) :
          currentMovingPoint = constructionPoints[k].id =>
              NothingTracked([removeConstructionPoint(Entry, constructionPoints[k])
                                 EXCEPT !.threw = FALSE])
    /\ currentMovingPoint = nullId => NothingTracked(Entry)

\* The button is down on an active knot that a mousemove would move and a
\* right click would remove
ActiveKnotAboutToBeRemoved ==
    /\ isMouseDown
    /\ \E k \in 1..Len(constructionPoints), position \in Positions :
          /\ currentMovingPoint = constructionPoints[k].id
          /\ k \in RemovableAt(position)
          /\ contextmenu(Entry, position).currentMovingPoint = nullId
          /\ \E other \in Positions :
                mousemove(Entry, other).constructionPoints # constructionPoints

----------------------------------------------------------------------------
(* Snapshots once pushed.  A record of a snapshot is an object of its own   *)
(* holding numbers; were it a Point of the spline (a record with the        *)
(* Point's id), reading it would give the coordinates that Point has now.   *)

\* The handlers the knots of the spline own
Handlers(cps) ==
    ({cps[i].handler1 : i \in 1..Len(cps)} \cup {cps[i].handler2 : i \in 1..Len(cps)})
        \ {null}

\* The coordinates read now from a record r of a snapshot
ReadNow(r, cps) ==
    LET live == {h \in Handlers(cps) : "id" \in DOMAIN r /\ h.id = r.id}
    IN  IF live = {} THEN [x |-> r.x, y |-> r.y]
        ELSE LET h == CHOOSE point \in live : TRUE
             IN  [x |-> h.x, y |-> h.y]

\* The content read now from a snapshot
SnapshotRead(snapshot, cps) ==
    [i \in 1..Len(snapshot) |->
        LET point == snapshot[i]
        IN  [x |-> point.x, y |-> point.y,
             hp1 |-> ReadNow(point.hp1, cps),
             hp2 |-> IF "hp2" \in DOMAIN point THEN <<ReadNow(point.hp2, cps)>> ELSE <<>>]]

\* C34: a snapshot's content does not change for as long as it stays in
\* statesStack: over every step (edit, drag, removal, key, import), either the
\* stack is emptied, or it is left alone and every snapshot reads as before,
\* or a push happened and the snapshots kept (those up to the cursor, but the
\* oldest when they filled the capacity) read as before at their new indices.
SnapshotsAreImmutable ==
    [][LET old == Len(statesStack)
           new == Len(statesStack')
           pushed == new > 0 /\ lastHistoryStateHash' # lastHistoryStateHash
           kept == IF pushed THEN new - 1 ELSE new
           shift == IF pushed THEN Min(old, statesCursor + 1) - kept ELSE 0
       IN  new > 0 =>
               /\ shift \in {0, 1}
               /\ ~pushed => new = old
               /\ \A k \in 1..kept :
                      SnapshotRead(statesStack'[k], constructionPoints')
                          = SnapshotRead(statesStack[k + shift], constructionPoints)]_vars

\* A snapshot is still in the stack after an edit moved a handle of a knot it
\* recorded
SnapshotOutlivedAnEdit ==
    /\ statesStack # <<>>
    /\ eventCount >= 2
    /\ LET snapshot == statesStack[Len(statesStack)]
       IN  \E i \in 1..Min(Len(snapshot), Len(constructionPoints)) :
               /\ snapshot[i].x = constructionPoints[i].x
               /\ snapshot[i].y = constructionPoints[i].y
               /\ "hp2" \in DOMAIN snapshot[i]
               /\ constructionPoints[i].handler2 # null
               /\ snapshot[i].hp2.x # constructionPoints[i].handler2.x

----------------------------------------------------------------------------
(* Ownership of the handles and the point being moved                       *)

\* The slots of the spline that hold a handle: <<knot index, 1 or 2>>
Slots(cps) ==
    {c \in (1..Len(cps)) \X {1, 2} :
        (IF c[2] = 1 THEN cps[c[1]].handler1 ELSE cps[c[1]].handler2) # null}

\* The Point held in a slot
HandleAt(cps, c) == IF c[2] = 1 THEN cps[c[1]].handler1 ELSE cps[c[1]].handler2

MovingPointIsInSpline ==
    currentMovingPoint # nullId =>
        currentMovingPoint \in UsedIds(constructionPoints, nullId)

----------------------------------------------------------------------------
(* The hash of the state last pushed.  JSON.stringify writes NaN, Infinity  *)
(* and -Infinity as null alike.  The canvas starts in natural mode with     *)
(* constraintTangents and two knots whose segment, subdivided by a click at *)
(* (2,0), gives a knot with its handler2 on it.                             *)

NonFiniteImport == <<Record2(0, 0, 0, 0, 0, 0), Record2(3, 0, 0, 0, 3, 4)>>

InitNonFinite ==
    /\ \E size \in HistorySizes :
          Is(setPoints(Constructed([naturalDrawMode |-> TRUE, maxDistance |-> 1,
                                    constraintTangents |-> TRUE, historySize |-> size]),
                       NonFiniteImport))
    /\ returned = <<>>
    /\ eventCount = 0

SpecNonFinite == InitNonFinite /\ [][Next]_vars

\* Ctrl down, the button pressed at `from`, the pointer moved to `to` and back
DraggedAndBack(m, from, to) ==
    mousemove(mousemove(mousedown(keydown(m, "Control", TRUE), from), to), from)

\* C37: in every reachable state, if lastHistoryStateHash is not null then
\* statesStack is not empty, statesCursor is its last index and the
\* serialization of statesStack[statesCursor] is lastHistoryStateHash; hence
\* whenever pushHistoryStateIfChanged would skip the push (the hash of the
\* exported state is lastHistoryStateHash), in the state itself and after a
\* point is pressed with Ctrl, dragged away and dragged back, the snapshot at
\* the cursor is the exported state.
LastHashIsOfSnapshotAtCursor ==
    /\ lastHistoryStateHash # <<>> =>
          /\ statesStack # <<>>
          /\ statesCursor = Len(statesStack) - 1
          /\ <<JsonStringify(statesStack[statesCursor + 1])>> = lastHistoryStateHash
    /\ \A m \in {Entry} \cup (IF isMouseDown THEN {}
                              ELSE {DraggedAndBack(Entry, from, to) :
                                        from \in Positions, to \in Positions}) :
          <<getCurrentStateHash(m)>> = m.lastHistoryStateHash =>
              /\ pushHistoryStateIfChanged(m) = m
              /\ Captured(m)

====
